---- MODULE Spec2Model ----
\* Production stage state machine, raw-material ledger, event router,
\* reorder engine and purchase-order lifecycle of Denno-Labs/Logistria.
\*
\* The CSV tables are the state.  Columns that no code in scope ever reads
\* back (order_id, created_at, last_updated, the WIP quantity column, the
\* free-text columns of a purchase order) are left out of the rows.
\* Rows of one table that belong to different production ids are never
\* compared with each other by the code (every access filters on
\* production_id), so production_orders.csv and wip_tracking.csv are kept
\* as one row sequence per production id, in file order.
EXTENDS Integers, Sequences, FiniteSets, TLC

\* ---------------------------------------------------------------- bounds
MaxStock == 2
MaxQty == 2
MaxRework == 1
MaxPO == 2
MaxRecv == 2
MaxCalls == 2
MaxReserved == 1
MaxDemand == 2
MaxLot == 2
MaxCandidates == 3
MaxBatch == 2
MaxRows == 2
MaxBulkStock == 25
MaxBulkQty == 10
MaxScore == 7

\* ------------------------------------------------------- reference data
Productions == {"P1", "P2"}
FinishedProducts == {"X", "Y", "Z"}
Materials == {"A", "B"}
Quantities == 1..MaxQty
TargetQuantities == {MaxQty}

STAGE_SEQUENCE == <<"MATERIAL_ISSUED", "FABRICATION", "ASSEMBLY", "PAINTING", "QUALITY_CHECK", "COMPLETED">>

Stages == {STAGE_SEQUENCE[i] : i \in 1..Len(STAGE_SEQUENCE)}

\* completed_stage is any string of the request: the stage names and one
\* that names no stage.
StageInputs == Stages \cup {"SHIPPED"}

\* bom.csv: X needs 1 A and 1 B per unit, Y lists component A in two rows,
\* Z has no BOM, W needs 2 M per unit.
bom_df == << [finished_product_id |-> "X", component_product_id |-> "A", quantity_required |-> 1],
             [finished_product_id |-> "X", component_product_id |-> "B", quantity_required |-> 1],
             [finished_product_id |-> "Y", component_product_id |-> "A", quantity_required |-> 1],
             [finished_product_id |-> "Y", component_product_id |-> "A", quantity_required |-> 1],
             [finished_product_id |-> "W", component_product_id |-> "M", quantity_required |-> 2] >>

VARIABLES
  production_orders,  \* production_orders.csv: production id -> rows
  wip_tracking,       \* wip_tracking.csv: production id -> rows, in file order
  fg_inventory,       \* finished_goods_inventory.csv: product -> current_stock
  inventory,          \* inventory.csv: material -> [current_stock, reserved_stock]
  qc_log,             \* quality_check_log.csv: rows, in file order
  orchestration_log,  \* orchestration_log.csv: number of rows
  purchase_orders,    \* purchase_orders.csv: rows, po_id = position
  result,             \* what the last call handed to its caller
  consumptions,       \* history: production id -> BOM consumptions written to the ledger
  threads,            \* request threads of the server, each inside _update_stage or outside it
  call                \* a direct call of the reorder engine, the supplier ranking or the router

vars == <<production_orders, wip_tracking, fg_inventory, inventory, qc_log, orchestration_log, purchase_orders, result, consumptions, threads, call>>

\* ------------------------------------------------------------- results
NoOrchestration == [present |-> FALSE, procurement_plan |-> <<>>, orchestration_log_id |-> 0]

NoResult == [status |-> "NONE", message |-> "", production_id |-> "", previous_stage |-> "", new_stage |-> "", quantity_processed |-> 0, production_status |-> "", product_id |-> "", llm_suggestions |-> "", orchestration_result |-> NoOrchestration, purchase_order_ids |-> <<>>]

ErrorResult(message) == [NoResult EXCEPT !.status = "ERROR", !.message = message]

\* An exception that leaves the handler: the caller gets no result dict.
Raised(message) == [NoResult EXCEPT !.status = "EXCEPTION", !.message = message]

\* The tables as one value, so that a handler is a function from the tables
\* it finds to the tables it leaves and the result it returns.
Db == [production_orders |-> production_orders, wip_tracking |-> wip_tracking, fg_inventory |-> fg_inventory, inventory |-> inventory, qc_log |-> qc_log, orchestration_log |-> orchestration_log, purchase_orders |-> purchase_orders, result |-> result]

\* ------------------------------------------------------------ CREATE
\* An id written in digits.  A request carries its production_id as a JSON
\* string; the tables keep it as CSV text.
DigitIds == {"7"}

\* pd.read_csv gives the production_id column the dtype int64 when every id
\* of the file is written in digits, and object (strings) otherwise.
IsIntColumn(table) ==
  /\ \E p \in DOMAIN table : table[p] # <<>>
  /\ \A p \in DOMAIN table : table[p] # <<>> => p \in DigitIds

\* data["production_id"] in df["production_id"].values: a string equals no
\* element of an int64 column.
InColumn(production_id, table) ==
  table[production_id] # <<>> /\ ~IsIntColumn(table)

_create_production(db, data) ==
  IF InColumn(data.production_id, db.production_orders)
  THEN [db EXCEPT !.result = ErrorResult("Production ID already exists in production_orders")]
  ELSE IF InColumn(data.production_id, db.wip_tracking)
  THEN [db EXCEPT !.result = ErrorResult("Production ID already exists in WIP")]
  ELSE [db EXCEPT
          !.production_orders[data.production_id] =
             Append(@, [product_id |-> data.product_id, target_quantity |-> data.target_quantity,
                        current_stage |-> "MATERIAL_ISSUED", status |-> "CREATED"]),
          !.wip_tracking[data.production_id] =
             Append(@, [stage_name |-> "MATERIAL_ISSUED", status |-> "IN_PROGRESS"]),
          !.result = [NoResult EXCEPT !.status = "SUCCESS", !.production_id = data.production_id,
                                      !.new_stage = "MATERIAL_ISSUED",
                                      !.quantity_processed = data.target_quantity,
                                      !.production_status = "CREATED",
                                      !.message = "Production created"]]

\* ------------------------------------------------ ledger (BOM consumption)
product_bom(product_id) ==
  SelectSeq(bom_df, LAMBDA r : r.finished_product_id = product_id)

\* Validation that looks at the first BOM row only.
FirstShort_FirstRowOnly(inventory_df, rows, quantity_completed, i) ==
  IF rows # <<>>
     /\ (rows[1].component_product_id \notin DOMAIN inventory_df
         \/ inventory_df[rows[1].component_product_id].current_stock
              < rows[1].quantity_required * quantity_completed)
  THEN 1 ELSE 0

\* VALIDATION FIRST: the position of the first BOM row whose component has
\* no ledger record or too little stock for that row; 0 when every row passes.
RECURSIVE FirstShort(_, _, _, _)
FirstShort(inventory_df, rows, quantity_completed, i) ==
  IF i > Len(rows) THEN 0
  ELSE LET component_id == rows[i].component_product_id
           total_required == rows[i].quantity_required * quantity_completed
       IN IF component_id \notin DOMAIN inventory_df
             \/ inventory_df[component_id].current_stock < total_required
          THEN i
          ELSE FirstShort(inventory_df, rows, quantity_completed, i + 1)

\* A reduction that takes the per-unit requirement, whatever the quantity.
RECURSIVE Reduce_PerUnit(_, _, _, _)
Reduce_PerUnit(inventory_df, rows, quantity_completed, i) ==
  IF i > Len(rows) THEN inventory_df
  ELSE Reduce_PerUnit([inventory_df EXCEPT ![rows[i].component_product_id].current_stock =
                                              @ - rows[i].quantity_required],
                      rows, quantity_completed, i + 1)

\* REDUCTION: every BOM row, in order, takes its total_required off the
\* component's current_stock.
RECURSIVE Reduce(_, _, _, _)
Reduce(inventory_df, rows, quantity_completed, i) ==
  IF i > Len(rows) THEN inventory_df
  ELSE LET component_id == rows[i].component_product_id
           total_required == rows[i].quantity_required * quantity_completed
       IN Reduce([inventory_df EXCEPT ![component_id].current_stock = @ - total_required],
                 rows, quantity_completed, i + 1)

AffectedMaterials(rows, quantity_completed) ==
  [i \in 1..Len(rows) |->
     [material_id |-> rows[i].component_product_id,
      quantity_consumed |-> rows[i].quantity_required * quantity_completed]]

\* ---------------------------------------------------------- reorder engine
calculate_available_stock(product_row) ==
  product_row.current_stock - product_row.reserved_stock

calculate_reorder_point(average_daily_demand, lead_time_days, safety_stock) ==
  (average_daily_demand * lead_time_days) + safety_stock

Max(a, b) == IF a >= b THEN a ELSE b

\* An EOQ quantity reduced by the stock at hand.
calculate_order_quantity_EoqLessStock(policy_config, available_stock) ==
  IF policy_config.policy_type = "EOQ"
  THEN IF "economic_order_quantity" \in DOMAIN policy_config
       THEN Max(0, policy_config.economic_order_quantity - available_stock) ELSE -1
  ELSE IF policy_config.policy_type = "TARGET_LEVEL"
  THEN IF "target_level" \in DOMAIN policy_config
       THEN Max(0, policy_config.target_level - available_stock) ELSE -1
  ELSE IF policy_config.policy_type = "FIXED_LOT"
  THEN IF "fixed_lot_size" \in DOMAIN policy_config
       THEN policy_config.fixed_lot_size ELSE -1
  ELSE -1

\* -1 stands for the exception (unsupported policy, or a policy parameter
\* the configuration does not hold); every real quantity is >= 0.
calculate_order_quantity(policy_config, available_stock) ==
  IF policy_config.policy_type = "EOQ"
  THEN IF "economic_order_quantity" \in DOMAIN policy_config
       THEN policy_config.economic_order_quantity ELSE -1
  ELSE IF policy_config.policy_type = "TARGET_LEVEL"
  THEN IF "target_level" \in DOMAIN policy_config
       THEN Max(0, policy_config.target_level - available_stock) ELSE -1
  ELSE IF policy_config.policy_type = "FIXED_LOT"
  THEN IF "fixed_lot_size" \in DOMAIN policy_config
       THEN policy_config.fixed_lot_size ELSE -1
  ELSE -1

\* A trigger that fires only strictly below the reorder point.
evaluate_reorder_Strict(available_stock, reorder_point) ==
  available_stock < reorder_point

evaluate_reorder(available_stock, reorder_point) ==
  available_stock <= reorder_point

NoDecision == [material_id |-> "", available_stock |-> 0, reorder_point |-> 0, reorder_trigger |-> FALSE, policy_used |-> "", recommended_order_quantity |-> 0]

generate_event_payload(product_id, available_stock, reorder_point, reorder_trigger, policy_used, recommended_order_quantity) ==
  IF recommended_order_quantity < 0
  THEN [raised |-> TRUE, message |-> "Unsupported policy type", decision |-> NoDecision]
  ELSE [raised |-> FALSE, message |-> "",
        decision |-> [material_id |-> product_id,
                      available_stock |-> available_stock,
                      reorder_point |-> reorder_point,
                      reorder_trigger |-> reorder_trigger,
                      policy_used |-> IF reorder_trigger THEN policy_used ELSE "",
                      recommended_order_quantity |-> IF reorder_trigger THEN recommended_order_quantity ELSE 0]]

\* The quantity is computed before the trigger is evaluated, so a policy the
\* engine cannot compute raises whether or not a reorder is due.
handle_inventory_update(inventory_df, product_id, demand_params, policy_config) ==
  IF product_id \notin DOMAIN inventory_df
  THEN [raised |-> TRUE, message |-> "Product ID not found in inventory", decision |-> NoDecision]
  ELSE generate_event_payload(
         product_id,
         calculate_available_stock(inventory_df[product_id]),
         calculate_reorder_point(demand_params.average_daily_demand, demand_params.lead_time_days,
                                 demand_params.safety_stock),
         evaluate_reorder(calculate_available_stock(inventory_df[product_id]),
                          calculate_reorder_point(demand_params.average_daily_demand,
                                                  demand_params.lead_time_days,
                                                  demand_params.safety_stock)),
         policy_config.policy_type,
         calculate_order_quantity(policy_config, calculate_available_stock(inventory_df[product_id])))

\* -------------------------------------------------------- supplier ranking
\* SupplierRankingAgent(confidence_threshold = 0.6); scores are in tenths.
confidence_threshold == 6

\* preprocess_data: the rows of the product, or every row when it has none.
ProductRows(data, product_id) == SelectSeq(data, LAMBDA row : row.product_id = product_id)

preprocess_data(data, product_id) ==
  IF ProductRows(data, product_id) = <<>> THEN data ELSE ProductRows(data, product_id)

\* df.sort_values(by = "confidence_score", ascending = False)
\* An insertion that ignores the score.
InsertByScore_IgnoresScore(row, df_sorted) == <<row>> \o df_sorted

RECURSIVE InsertByScore(_, _)
InsertByScore(row, df_sorted) ==
  IF df_sorted = <<>> THEN <<row>>
  ELSE IF row.confidence_score > Head(df_sorted).confidence_score THEN <<row>> \o df_sorted
  ELSE <<Head(df_sorted)>> \o InsertByScore(row, Tail(df_sorted))

RECURSIVE sort_values(_, _)
sort_values(df, i) ==
  IF i = 0 THEN <<>> ELSE InsertByScore(df[i], sort_values(df, i - 1))

head(df, n) == SubSeq(df, 1, IF Len(df) < n THEN Len(df) ELSE n)

high_conf(df_sorted) == SelectSeq(df_sorted, LAMBDA row : row.confidence_score >= confidence_threshold)

\* A ranking content with one high-confidence supplier.
rank_suppliers_OneIsEnough(df) ==
  IF Len(high_conf(sort_values(df, Len(df)))) >= 1
  THEN [ranked_df |-> head(high_conf(sort_values(df, Len(df))), 2), warning |-> ""]
  ELSE [ranked_df |-> head(sort_values(df, Len(df)), 2),
        warning |-> "High-confidence suppliers not available. Returning best possible options."]

rank_suppliers(df) ==
  IF Len(high_conf(sort_values(df, Len(df)))) >= 2
  THEN [ranked_df |-> head(high_conf(sort_values(df, Len(df))), 2), warning |-> ""]
  ELSE [ranked_df |-> head(sort_values(df, Len(df)), 2),
        warning |-> "High-confidence suppliers not available. Returning best possible options."]

\* The index labels of ranked_df: reset_index numbers the sorted rows from 0
\* and neither the filter nor head renumbers them.
ranked_index(df) ==
  IF Len(high_conf(sort_values(df, Len(df)))) >= 2
  THEN head(SelectSeq([i \in 1..Len(df) |-> i - 1],
                      LAMBDA idx : sort_values(df, Len(df))[idx + 1].confidence_score >= confidence_threshold), 2)
  ELSE head([i \in 1..Len(df) |-> i - 1], 2)

\* generate_output: one entry per row of ranked_df, numbered by its label.
generate_output(ranked_df, index, warning) ==
  [top_suppliers |-> [i \in 1..Len(ranked_df) |->
                        [supplier_id |-> ranked_df[i].supplier_id,
                         confidence_score |-> ranked_df[i].confidence_score,
                         ranking_position |-> index[i] + 1]],
   warning |-> warning]

\* ------------------------------------------- strategic-reasoning service
\* What the external service does on one call: it answers valid JSON holding
\* a procurement plan, valid JSON without one, text that is not JSON, or the
\* call itself fails.
OrchestratorOutcomes == {"PLAN", "NO_PLAN", "MALFORMED", "UNAVAILABLE"}

\* A run that takes an answer it cannot parse for a decision.
orchestrator_run_KeepsRawText(structured_input, outcome, log_rows) ==
  IF outcome = "UNAVAILABLE"
  THEN [raised |-> TRUE, message |-> "Strategic reasoning service failed",
        decision |-> NoOrchestration, orchestration_log |-> log_rows]
  ELSE [raised |-> FALSE, message |-> "",
        decision |-> [present |-> TRUE,
                      procurement_plan |-> IF outcome = "NO_PLAN"
                                           THEN <<>>
                                           ELSE structured_input.inventory_analysis,
                      orchestration_log_id |-> log_rows + 1],
        orchestration_log |-> log_rows + 1]

\* AutonomousOrchestratorAgent.run.  A plan echoes the inventory_analysis it
\* was given (the prompt forbids the service to change quantities).
orchestrator_run(structured_input, outcome, log_rows) ==
  IF outcome = "UNAVAILABLE"
  THEN [raised |-> TRUE, message |-> "Strategic reasoning service failed",
        decision |-> NoOrchestration, orchestration_log |-> log_rows]
  ELSE IF outcome = "MALFORMED"
  THEN [raised |-> TRUE, message |-> "Model did not return valid JSON.",
        decision |-> NoOrchestration, orchestration_log |-> log_rows]
  ELSE [raised |-> FALSE, message |-> "",
        decision |-> [present |-> TRUE,
                      procurement_plan |-> IF outcome = "PLAN"
                                           THEN structured_input.inventory_analysis
                                           ELSE <<>>,
                      orchestration_log_id |-> log_rows + 1],
        orchestration_log |-> log_rows + 1]

\* ------------------------------------------------------------ event router
RequiredKeys == {"event_type", "source", "timestamp", "production_id", "affected_materials"}

\* A validation that accepts any event_type.
_validate_event_structure_AnyEventType(event) ==
  IF ~(RequiredKeys \subseteq DOMAIN event) THEN "Missing required event key"
  ELSE IF event.affected_materials_type # "list" THEN "affected_materials must be a list."
  ELSE IF \E i \in 1..Len(event.affected_materials) :
            "material_id" \notin DOMAIN event.affected_materials[i]
  THEN "Each affected material must contain material_id."
  ELSE ""

\* "" when the event passes, else the error of the first failed check.
\* affected_materials_type is the Python type of event["affected_materials"],
\* which isinstance reads.
_validate_event_structure(event) ==
  IF ~(RequiredKeys \subseteq DOMAIN event) THEN "Missing required event key"
  ELSE IF event.event_type # "INVENTORY_UPDATED" THEN "Invalid event_type. Expected INVENTORY_UPDATED."
  ELSE IF event.affected_materials_type # "list" THEN "affected_materials must be a list."
  ELSE IF \E i \in 1..Len(event.affected_materials) :
            "material_id" \notin DOMAIN event.affected_materials[i]
  THEN "Each affected material must contain material_id."
  ELSE ""

\* evaluations and rankings count the calls of
\* reorder_service.handle_inventory_update and of the supplier pipeline;
\* ranked_for lists the arguments of the supplier pipeline's calls.
EmptyLoop == [raised |-> FALSE, message |-> "", decisions |-> <<>>, inventory_analysis_list |-> <<>>, supplier_ranking_results |-> <<>>, ranked_for |-> <<>>, evaluations |-> 0, rankings |-> 0]

\* An analysis list that takes its newest entry first.
Evaluated_NewestFirst(acc, material_id, r, env) ==
  IF r.raised
  THEN [acc EXCEPT !.raised = TRUE, !.message = r.message, !.evaluations = @ + 1]
  ELSE IF ~r.decision.reorder_trigger
  THEN [acc EXCEPT !.decisions = Append(@, r.decision), !.evaluations = @ + 1]
  ELSE [acc EXCEPT !.raised = env.supplier = "ERROR",
                   !.message = IF env.supplier = "ERROR" THEN "Supplier ranking pipeline failed" ELSE "",
                   !.evaluations = @ + 1, !.rankings = @ + 1,
                   !.decisions = Append(@, r.decision),
                   !.inventory_analysis_list =
                      <<[material_id |-> material_id,
                         quantity_to_order |-> r.decision.recommended_order_quantity]>> \o @,
                   !.ranked_for =
                      Append(@, [product_id |-> material_id,
                                 required_quantity |-> r.decision.recommended_order_quantity]),
                   !.supplier_ranking_results =
                      IF env.supplier = "ERROR" THEN @
                      ELSE Append(@, [material_id |-> material_id, suppliers |-> <<"S1", "S2">>])]

\* One material of the loop, given its reorder decision r: what the loop has
\* gathered after it.  env.supplier = "ERROR": the supplier pipeline raises.
Evaluated(acc, material_id, r, env) ==
  IF r.raised
  THEN [acc EXCEPT !.raised = TRUE, !.message = r.message, !.evaluations = @ + 1]
  ELSE IF ~r.decision.reorder_trigger
  THEN [acc EXCEPT !.decisions = Append(@, r.decision), !.evaluations = @ + 1]
  ELSE IF env.supplier = "ERROR"
  THEN [acc EXCEPT !.raised = TRUE, !.message = "Supplier ranking pipeline failed",
                   !.evaluations = @ + 1, !.rankings = @ + 1,
                   !.decisions = Append(@, r.decision),
                   !.inventory_analysis_list =
                      Append(@, [material_id |-> material_id,
                                 quantity_to_order |-> r.decision.recommended_order_quantity]),
                   !.ranked_for =
                      Append(@, [product_id |-> material_id,
                                 required_quantity |-> r.decision.recommended_order_quantity])]
  ELSE [acc EXCEPT !.evaluations = @ + 1, !.rankings = @ + 1,
                   !.decisions = Append(@, r.decision),
                   !.inventory_analysis_list =
                      Append(@, [material_id |-> material_id,
                                 quantity_to_order |-> r.decision.recommended_order_quantity]),
                   !.ranked_for =
                      Append(@, [product_id |-> material_id,
                                 required_quantity |-> r.decision.recommended_order_quantity]),
                   !.supplier_ranking_results =
                      Append(@, [material_id |-> material_id, suppliers |-> <<"S1", "S2">>])]

\* A loop that passes over a material without configuration.
RECURSIVE RouteLoop_SkipsUnconfigured(_, _, _, _, _)
RouteLoop_SkipsUnconfigured(inventory_df, affected_materials, env, i, acc) ==
  IF acc.raised \/ i > Len(affected_materials) THEN acc
  ELSE IF affected_materials[i].material_id \notin DOMAIN env.demand_config
          \/ affected_materials[i].material_id \notin DOMAIN env.policy_config
  THEN RouteLoop_SkipsUnconfigured(inventory_df, affected_materials, env, i + 1, acc)
  ELSE RouteLoop_SkipsUnconfigured(inventory_df, affected_materials, env, i + 1,
                 Evaluated(acc, affected_materials[i].material_id,
                           handle_inventory_update(inventory_df, affected_materials[i].material_id,
                                                   env.demand_config[affected_materials[i].material_id],
                                                   env.policy_config[affected_materials[i].material_id]),
                           env))

\* The per-material loop of handle_inventory_event, from material i on; an
\* exception ends it.
RECURSIVE RouteLoop(_, _, _, _, _)
RouteLoop(inventory_df, affected_materials, env, i, acc) ==
  IF acc.raised \/ i > Len(affected_materials) THEN acc
  ELSE IF affected_materials[i].material_id \notin DOMAIN env.demand_config
  THEN [acc EXCEPT !.raised = TRUE, !.message = "Demand configuration missing for material"]
  ELSE IF affected_materials[i].material_id \notin DOMAIN env.policy_config
  THEN [acc EXCEPT !.raised = TRUE, !.message = "Policy configuration missing for material"]
  ELSE RouteLoop(inventory_df, affected_materials, env, i + 1,
                 Evaluated(acc, affected_materials[i].material_id,
                           handle_inventory_update(inventory_df, affected_materials[i].material_id,
                                                   env.demand_config[affected_materials[i].material_id],
                                                   env.policy_config[affected_materials[i].material_id]),
                           env))

\* structured_input: the inventory_analysis and supplier_ranking_results
\* handed to the reasoning service, when it was called.
NoResponse(message, log_rows) ==
  [raised |-> TRUE, message |-> message, materials_evaluated |-> <<>>, orchestration_result |-> NoOrchestration, orchestration_log |-> log_rows, evaluations |-> 0, rankings |-> 0, reasoning_calls |-> 0, ranked_for |-> <<>>,
   structured_input |-> [inventory_analysis |-> <<>>, supplier_ranking_results |-> <<>>]]

\* _generate_response, after the strategic-reasoning call o
Orchestrated(loop, o, log_rows) ==
  IF o.raised
  THEN [NoResponse(o.message, log_rows) EXCEPT !.evaluations = loop.evaluations,
                                                !.rankings = loop.rankings, !.reasoning_calls = 1,
                                                !.ranked_for = loop.ranked_for,
                                                !.structured_input =
                                                   [inventory_analysis |-> loop.inventory_analysis_list,
                                                    supplier_ranking_results |-> loop.supplier_ranking_results]]
  ELSE [raised |-> FALSE, message |-> "",
        materials_evaluated |-> loop.decisions,
        orchestration_result |-> o.decision,
        orchestration_log |-> o.orchestration_log,
        evaluations |-> loop.evaluations,
        rankings |-> loop.rankings,
        reasoning_calls |-> 1,
        ranked_for |-> loop.ranked_for,
        structured_input |-> [inventory_analysis |-> loop.inventory_analysis_list,
                              supplier_ranking_results |-> loop.supplier_ranking_results]]

\* The strategic-reasoning call made for every batch that ends its loop.
Aggregate_AlwaysInvokes(inventory_event, loop, env, log_rows) ==
  IF loop.raised
  THEN [NoResponse(loop.message, log_rows) EXCEPT !.evaluations = loop.evaluations, !.rankings = loop.rankings]
  ELSE Orchestrated(loop,
                    orchestrator_run([production_request |-> [order_id |-> inventory_event.production_id],
                                      bill_of_materials |-> inventory_event.affected_materials,
                                      inventory_analysis |-> loop.inventory_analysis_list,
                                      supplier_ranking_results |-> loop.supplier_ranking_results],
                                     env.orchestrator, log_rows),
                    log_rows)

\* handle_inventory_event once the loop is over
Aggregate(inventory_event, loop, env, log_rows) ==
  IF loop.raised
  THEN [NoResponse(loop.message, log_rows) EXCEPT !.evaluations = loop.evaluations, !.rankings = loop.rankings]
  ELSE IF loop.inventory_analysis_list = <<>>
  THEN [NoResponse("", log_rows) EXCEPT !.raised = FALSE, !.materials_evaluated = loop.decisions,
                                        !.evaluations = loop.evaluations, !.rankings = loop.rankings,
                                        !.ranked_for = loop.ranked_for]
  ELSE Orchestrated(loop,
                    orchestrator_run([production_request |-> [order_id |-> inventory_event.production_id],
                                      bill_of_materials |-> inventory_event.affected_materials,
                                      inventory_analysis |-> loop.inventory_analysis_list,
                                      supplier_ranking_results |-> loop.supplier_ranking_results],
                                     env.orchestrator, log_rows),
                    log_rows)

handle_inventory_event(inventory_df, inventory_event, env, log_rows) ==
  IF _validate_event_structure(inventory_event) # ""
  THEN NoResponse(_validate_event_structure(inventory_event), log_rows)
  ELSE Aggregate(inventory_event,
                 RouteLoop(inventory_df, inventory_event.affected_materials, env, 1, EmptyLoop),
                 env, log_rows)

\* ------------------------------------------------------------ UPDATE
\* A write of current_stage that leaves the status column alone.
SetOrder_StageOnly(rows, current_stage, status) ==
  [i \in 1..Len(rows) |-> [rows[i] EXCEPT !.current_stage = current_stage]]

\* prod_df.loc[production_id rows, [current_stage, status]] = ...
SetOrder(rows, current_stage, status) ==
  [i \in 1..Len(rows) |-> [rows[i] EXCEPT !.current_stage = current_stage, !.status = status]]

\* A history in which no row is ever marked.
MarkCompleted_Nothing(rows, completed_stage) == rows

\* wip_df.loc[production_id rows with stage_name = completed_stage, status] = COMPLETED
MarkCompleted(rows, completed_stage) ==
  [i \in 1..Len(rows) |->
     IF rows[i].stage_name = completed_stage THEN [rows[i] EXCEPT !.status = "COMPLETED"] ELSE rows[i]]

StageIndex(stage) == CHOOSE i \in 1..Len(STAGE_SEQUENCE) : STAGE_SEQUENCE[i] = stage

\* A successor computed two positions ahead.
NextStage_Skips(current_stage) ==
  IF StageIndex(current_stage) + 2 > Len(STAGE_SEQUENCE) THEN ""
  ELSE STAGE_SEQUENCE[StageIndex(current_stage) + 2]

\* A successor that stays at the last stage.
NextStage_StaysAtLast(current_stage) ==
  IF StageIndex(current_stage) + 1 > Len(STAGE_SEQUENCE) THEN STAGE_SEQUENCE[Len(STAGE_SEQUENCE)]
  ELSE STAGE_SEQUENCE[StageIndex(current_stage) + 1]

\* NORMAL FLOW's successor; "" when current_stage is the last of the sequence.
NextStage(current_stage) ==
  IF StageIndex(current_stage) + 1 > Len(STAGE_SEQUENCE) THEN ""
  ELSE STAGE_SEQUENCE[StageIndex(current_stage) + 1]

\* The external advisory capability on one call, and what is stored for it.
AdvisoryOutcomes == {"NOT_CONFIGURED", "VALID_JSON", "MALFORMED", "RAISES"}

LlmSuggestions(advisory) ==
  IF advisory = "NOT_CONFIGURED" THEN ""
  ELSE IF advisory = "VALID_JSON" THEN "json"
  ELSE IF advisory = "MALFORMED" THEN "raw_suggestions"
  ELSE "error"

\* A pass that writes the quantity over the finished-goods stock.
QcPassed_OverwritesStock(db, data, product_id) ==
  [db EXCEPT
     !.production_orders[data.production_id] = SetOrder(@, "COMPLETED", "COMPLETED"),
     !.fg_inventory = [f \in DOMAIN db.fg_inventory \cup {product_id} |->
                         IF f = product_id THEN data.quantity_completed ELSE db.fg_inventory[f]],
     !.wip_tracking[data.production_id] = MarkCompleted(@, data.completed_stage),
     !.result = [NoResult EXCEPT !.status = "SUCCESS", !.production_id = data.production_id,
                                 !.previous_stage = "QUALITY_CHECK", !.new_stage = "COMPLETED",
                                 !.quantity_processed = data.quantity_completed,
                                 !.production_status = "COMPLETED",
                                 !.message = "Production completed"]]

\* completed_stage = QUALITY_CHECK, qc_passed
QcPassed(db, data, product_id) ==
  [db EXCEPT
     !.production_orders[data.production_id] = SetOrder(@, "COMPLETED", "COMPLETED"),
     !.fg_inventory = IF product_id \in DOMAIN db.fg_inventory
                      THEN [db.fg_inventory EXCEPT ![product_id] = @ + data.quantity_completed]
                      ELSE [f \in DOMAIN db.fg_inventory \cup {product_id} |->
                              IF f = product_id THEN data.quantity_completed ELSE db.fg_inventory[f]],
     !.wip_tracking[data.production_id] = MarkCompleted(@, data.completed_stage),
     !.result = [NoResult EXCEPT !.status = "SUCCESS", !.production_id = data.production_id,
                                 !.previous_stage = "QUALITY_CHECK", !.new_stage = "COMPLETED",
                                 !.quantity_processed = data.quantity_completed,
                                 !.production_status = "COMPLETED",
                                 !.message = "Production completed"]]

\* A rework branch that asks the advisory capability before it writes, and
\* lets its error out.
QcFailed_AdvisoryFirst(db, data, advisory) ==
  IF advisory = "RAISES"
  THEN [db EXCEPT !.result = Raised("LLM unavailable")]
  ELSE [db EXCEPT
          !.production_orders[data.production_id] = SetOrder(@, "ASSEMBLY", "REWORK"),
          !.wip_tracking[data.production_id] = Append(@, [stage_name |-> "ASSEMBLY", status |-> "REWORK"]),
          !.qc_log = Append(@, [production_id |-> data.production_id,
                                llm_suggestions |-> LlmSuggestions(advisory)]),
          !.result = [NoResult EXCEPT !.status = "SUCCESS", !.production_id = data.production_id]]

\* completed_stage = QUALITY_CHECK, not qc_passed
QcFailed(db, data, advisory) ==
  [db EXCEPT
     !.production_orders[data.production_id] = SetOrder(@, "ASSEMBLY", "REWORK"),
     !.wip_tracking[data.production_id] = Append(@, [stage_name |-> "ASSEMBLY", status |-> "REWORK"]),
     !.qc_log = Append(@, [production_id |-> data.production_id,
                           llm_suggestions |-> LlmSuggestions(advisory)]),
     !.result = [NoResult EXCEPT !.status = "SUCCESS", !.production_id = data.production_id,
                                 !.previous_stage = "QUALITY_CHECK", !.new_stage = "ASSEMBLY",
                                 !.quantity_processed = data.quantity_completed,
                                 !.production_status = "REWORK",
                                 !.message = "Moved to rework",
                                 !.llm_suggestions = LlmSuggestions(advisory)]]

NormalFlow(db, data, current_stage, orchestration_result) ==
  IF NextStage(current_stage) = ""
  THEN [db EXCEPT !.result = ErrorResult("Already at final stage")]
  ELSE [db EXCEPT
          !.wip_tracking[data.production_id] =
             Append(MarkCompleted(@, data.completed_stage),
                    [stage_name |-> NextStage(current_stage), status |-> "IN_PROGRESS"]),
          !.production_orders[data.production_id] = SetOrder(@, NextStage(current_stage), "IN_PROGRESS"),
          !.result = [NoResult EXCEPT !.status = "SUCCESS", !.production_id = data.production_id,
                                      !.previous_stage = data.completed_stage,
                                      !.new_stage = NextStage(current_stage),
                                      !.quantity_processed = data.quantity_completed,
                                      !.production_status = "IN_PROGRESS",
                                      !.message = "Stage updated",
                                      !.orchestration_result = orchestration_result]]

InventoryEvent(data, product_id, rows) ==
  [event_type |-> "INVENTORY_UPDATED", source |-> "ProductionExecutionAgent", timestamp |-> "now", production_id |-> data.production_id, finished_product_id |-> product_id, affected_materials_type |-> "list", affected_materials |-> AffectedMaterials(rows, data.quantity_completed)]

\* After inventory.csv is written: an exception of the router leaves
\* _update_stage before the order and the WIP history are touched.
AfterCascade(written, data, erp_response) ==
  IF erp_response.raised
  THEN [written EXCEPT !.result = Raised(erp_response.message)]
  ELSE NormalFlow([written EXCEPT !.orchestration_log = erp_response.orchestration_log],
                  data, "MATERIAL_ISSUED", erp_response.orchestration_result)

\* REDUCTION, inventory_df.to_csv, and the event handed to the router with
\* the reduced frame.
Consume(db, data, product_id, rows, inventory_df, env) ==
  AfterCascade([db EXCEPT !.inventory = inventory_df], data,
               handle_inventory_event(inventory_df, InventoryEvent(data, product_id, rows), env,
                                      db.orchestration_log))

\* The agent is built with the event router attached (ProductionService).
\* completed_stage = MATERIAL_ISSUED: validate, reduce, write the ledger,
\* hand the event to the router, then the normal flow.
MaterialIssued(db, data, product_id, env) ==
  IF product_bom(product_id) = <<>>
  THEN [db EXCEPT !.result = ErrorResult("No BOM defined for this product")]
  ELSE IF FirstShort(db.inventory, product_bom(product_id), data.quantity_completed, 1) # 0
  THEN [db EXCEPT !.result =
          [ErrorResult("Insufficient raw material") EXCEPT !.product_id =
             product_bom(product_id)[FirstShort(db.inventory, product_bom(product_id),
                                                data.quantity_completed, 1)].component_product_id]]
  ELSE Consume(db, data, product_id, product_bom(product_id),
               Reduce(db.inventory, product_bom(product_id), data.quantity_completed, 1), env)

\* A stage check that accepts any stage name.
StageMatches_AnyStage(completed_stage, current_stage) == completed_stage \in Stages

\* if completed_stage != current_stage: return ERROR
StageMatches(completed_stage, current_stage) == completed_stage = current_stage

_update_stage(db, data, env) ==
  IF db.production_orders[data.production_id] = <<>>
  THEN [db EXCEPT !.result = ErrorResult("Production not found")]
  ELSE IF ~StageMatches(data.completed_stage, db.production_orders[data.production_id][1].current_stage)
  THEN [db EXCEPT !.result = ErrorResult("Invalid stage transition")]
  ELSE IF data.completed_stage = "MATERIAL_ISSUED"
  THEN MaterialIssued(db, data, db.production_orders[data.production_id][1].product_id, env)
  ELSE IF data.completed_stage = "QUALITY_CHECK"
  THEN IF data.qc_passed
       THEN QcPassed(db, data, db.production_orders[data.production_id][1].product_id)
       ELSE QcFailed(db, data, env.advisory)
  ELSE NormalFlow(db, data, db.production_orders[data.production_id][1].current_stage, NoOrchestration)

\* ProcurementService.save_procurement_plan: one PENDING row per plan item.
save_procurement_plan(rows, plan) ==
  rows \o [i \in 1..Len(plan) |->
             [material_id |-> plan[i].material_id,
              quantity_to_order |-> plan[i].quantity_to_order,
              status |-> "PENDING"]]

\* ProductionService.update_stage, given what the agent returned: the
\* purchase orders of a procurement plan, when one came back.
SavePlan(o) ==
  IF o.result.status = "SUCCESS" /\ o.result.orchestration_result.present
     /\ o.result.orchestration_result.procurement_plan # <<>>
  THEN [o EXCEPT
          !.purchase_orders = save_procurement_plan(@, o.result.orchestration_result.procurement_plan),
          !.result.purchase_order_ids =
             [i \in 1..Len(o.result.orchestration_result.procurement_plan) |-> Len(o.purchase_orders) + i]]
  ELSE o

\* ProductionService.update_stage / quality_check
update_stage(db, data, env) == SavePlan(_update_stage(db, data, env))

\* --------------------------------------------------------- purchase orders
\* A status change that does not look at the current status.
_update_status_AnyCurrent(db, po_id, new_status) ==
  IF po_id \notin 1..Len(db.purchase_orders)
  THEN [db EXCEPT !.result = ErrorResult("PO not found")]
  ELSE [db EXCEPT !.purchase_orders[po_id].status = new_status,
                  !.result = [NoResult EXCEPT !.status = "SUCCESS",
                                              !.message = "Purchase order status changed"]]

\* A receipt taken for an order that is on file, whatever its status.
receive_po_AnyStatus(db, payload) ==
  IF payload.po_id \notin 1..Len(db.purchase_orders)
  THEN [db EXCEPT !.result = ErrorResult("PO not found")]
  ELSE [db EXCEPT
          !.purchase_orders[payload.po_id].status = "COMPLETED",
          !.inventory =
             IF db.purchase_orders[payload.po_id].material_id \in DOMAIN db.inventory
             THEN [db.inventory EXCEPT ![db.purchase_orders[payload.po_id].material_id].current_stock =
                                          @ + payload.received_quantity]
             ELSE db.inventory,
          !.result = [NoResult EXCEPT !.status = "SUCCESS", !.message = "Received"]]

\* ProcurementService._update_status (approve_po, reject_po)
_update_status(db, po_id, new_status) ==
  IF po_id \notin 1..Len(db.purchase_orders)
  THEN [db EXCEPT !.result = ErrorResult("PO not found")]
  ELSE IF db.purchase_orders[po_id].status # "PENDING"
  THEN [db EXCEPT !.result = ErrorResult("PO is already decided")]
  ELSE [db EXCEPT !.purchase_orders[po_id].status = new_status,
                  !.result = [NoResult EXCEPT !.status = "SUCCESS",
                                              !.message = "Purchase order status changed"]]

receive_po(db, payload) ==
  IF payload.po_id \notin 1..Len(db.purchase_orders)
  THEN [db EXCEPT !.result = ErrorResult("PO not found")]
  ELSE IF db.purchase_orders[payload.po_id].status # "APPROVED"
  THEN [db EXCEPT !.result = ErrorResult("Cannot receive PO")]
  ELSE LET material_id == db.purchase_orders[payload.po_id].material_id
       IN [db EXCEPT
             !.purchase_orders[payload.po_id].status = "COMPLETED",
             !.inventory =
                IF material_id \in DOMAIN db.inventory
                THEN [db.inventory EXCEPT ![material_id].current_stock = @ + payload.received_quantity]
                ELSE [m \in DOMAIN db.inventory \cup {material_id} |->
                        IF m = material_id
                        THEN [current_stock |-> payload.received_quantity, reserved_stock |-> 0]
                        ELSE db.inventory[m]],
             !.result = [NoResult EXCEPT !.status = "SUCCESS", !.message = "Received"]]

\* --------------------------------------------------- configuration, inputs
\* material_planning.csv, as ProductionService loads it at start-up.  The
\* tables outlive the process, so each call may meet another configuration.
DemandConfig == [m \in Materials |-> [average_daily_demand |-> 1, lead_time_days |-> 1, safety_stock |-> IF m = "A" THEN 1 ELSE 0]]

PolicyConfig == [m \in Materials |-> IF m = "A" THEN [policy_type |-> "EOQ", economic_order_quantity |-> 2] ELSE [policy_type |-> "TARGET_LEVEL", target_level |-> 3]]

Restrict(f, S) == [x \in S |-> f[x]]

NoDemandForA == Restrict(DemandConfig, {"B"})

NoPolicyForB == Restrict(PolicyConfig, {"A"})

DefaultEnv == [demand_config |-> DemandConfig, policy_config |-> PolicyConfig, supplier |-> "OK", orchestrator |-> "PLAN", advisory |-> "NOT_CONFIGURED"]

\* What a cascade can meet: the full configuration with each answer of the
\* strategic-reasoning service, a failing supplier pipeline, and a material
\* missing from the demand or from the policy configuration.
CascadeEnvs ==
  { [DefaultEnv EXCEPT !.orchestrator = o] : o \in OrchestratorOutcomes }
  \cup { [DefaultEnv EXCEPT !.supplier = "ERROR"],
         [DefaultEnv EXCEPT !.demand_config = NoDemandForA],
         [DefaultEnv EXCEPT !.policy_config = NoPolicyForB],
         [DefaultEnv EXCEPT !.policy_config = NoPolicyForB, !.supplier = "ERROR"] }

\* The external answers that the call can meet.  The cascade runs only for
\* a MATERIAL_ISSUED advance that the stage check lets through, the advisory
\* capability only for a failed quality check; no other call reads them.
Envs(db, data) ==
  IF db.production_orders[data.production_id] = <<>>
     \/ db.production_orders[data.production_id][1].current_stage # data.completed_stage
  THEN {DefaultEnv}
  ELSE IF data.completed_stage = "MATERIAL_ISSUED"
  THEN CascadeEnvs
  ELSE IF data.completed_stage = "QUALITY_CHECK" /\ ~data.qc_passed
  THEN { [DefaultEnv EXCEPT !.advisory = a] : a \in AdvisoryOutcomes }
  ELSE {DefaultEnv}

\* qc_passed is read for QUALITY_CHECK alone.
QcInputs(completed_stage) == IF completed_stage = "QUALITY_CHECK" THEN BOOLEAN ELSE {TRUE}

StageUpdate(production_id, completed_stage, quantity_completed, qc_passed) ==
  [production_id |-> production_id, completed_stage |-> completed_stage, quantity_completed |-> quantity_completed, qc_passed |-> qc_passed]

\* The request threads (Flask's development server is threaded by default).
Threads == {"T1", "T2"}

IdleThread ==
  [pc |-> "idle", calls |-> 0, data |-> StageUpdate("", "", 0, TRUE), env |-> DefaultEnv,
   prod_df |-> [p \in Productions |-> <<>>], wip_df |-> [p \in Productions |-> <<>>],
   inventory_df |-> [m \in {} |-> 0], orchestration_result |-> NoOrchestration,
   result |-> NoResult, overlapped |-> FALSE, issued |-> [m \in Materials |-> 0]]

FullLedger == [m \in Materials |-> [current_stock |-> MaxStock, reserved_stock |-> 0]]

\* No direct call of a component has been made.
NoCall == [op |-> "none"]

\* ---------------------------------------------------------------- actions
Commit(o) ==
  /\ production_orders' = o.production_orders
  /\ wip_tracking' = o.wip_tracking
  /\ fg_inventory' = o.fg_inventory
  /\ inventory' = o.inventory
  /\ qc_log' = o.qc_log
  /\ orchestration_log' = o.orchestration_log
  /\ purchase_orders' = o.purchase_orders
  /\ result' = o.result

CreateProduction(production_id, product_id, target_quantity) ==
  /\ Commit(_create_production(Db, [production_id |-> production_id, product_id |-> product_id, target_quantity |-> target_quantity]))
  /\ UNCHANGED <<consumptions, threads, call>>

\* The rework and purchase-order caps keep the state space finite.
AdvanceStage(data, env) ==
  \E o \in {update_stage(Db, data, env)} :
     /\ Len(o.qc_log) <= MaxRework
     /\ Len(o.purchase_orders) <= MaxPO
     /\ Commit(o)
     /\ consumptions' = IF o.inventory # inventory
                        THEN [consumptions EXCEPT ![data.production_id] = @ + 1]
                        ELSE consumptions
     /\ UNCHANGED <<threads, call>>

ApprovePo(po_id) ==
  /\ Commit(_update_status(Db, po_id, "APPROVED"))
  /\ UNCHANGED <<consumptions, threads, call>>

RejectPo(po_id) ==
  /\ Commit(_update_status(Db, po_id, "REJECTED"))
  /\ UNCHANGED <<consumptions, threads, call>>

ReceivePo(po_id, received_quantity) ==
  /\ Commit(receive_po(Db, [po_id |-> po_id, received_quantity |-> received_quantity]))
  /\ UNCHANGED <<consumptions, threads, call>>

\* ---------------------------------------------------------------- Init
Init ==
  /\ production_orders = [p \in Productions |-> <<>>]
  /\ wip_tracking = [p \in Productions |-> <<>>]
  /\ fg_inventory = [f \in {} |-> 0]
  /\ \E present \in {{"A"}, {"A", "B"}} :
       \E stock \in [present -> 0..MaxStock] :
         inventory = [m \in present |-> [current_stock |-> stock[m], reserved_stock |-> 0]]
  /\ qc_log = <<>>
  /\ orchestration_log = 0
  /\ purchase_orders = <<>>
  /\ result = NoResult
  /\ consumptions = [p \in Productions |-> 0]
  /\ threads = [t \in Threads |-> IdleThread]
  /\ call = NoCall

Next ==
  \/ \E production_id \in Productions, product_id \in FinishedProducts, target_quantity \in TargetQuantities :
        CreateProduction(production_id, product_id, target_quantity)
  \/ \E production_id \in Productions, completed_stage \in StageInputs, quantity_completed \in Quantities :
        \E qc_passed \in QcInputs(completed_stage) :
          \E env \in Envs(Db, StageUpdate(production_id, completed_stage, quantity_completed, qc_passed)) :
            AdvanceStage(StageUpdate(production_id, completed_stage, quantity_completed, qc_passed), env)

\* ------------------------------------------------------- purchase orders
\* The procurement routes alone: plans are saved as the production service
\* saves them, and the orders are approved, rejected and received in any
\* order, for ids on file and not on file.
Plans ==
  { <<[material_id |-> m, quantity_to_order |-> q]>> : m \in Materials, q \in Quantities }
  \cup { <<[material_id |-> "A", quantity_to_order |-> 1], [material_id |-> "B", quantity_to_order |-> MaxQty]>> }

PoIds == 1..(MaxPO + 1)

\* procurement_service.save_procurement_plan(log_id, production_id, decision)
SaveProcurementPlan(plan) ==
  /\ Len(purchase_orders) + Len(plan) <= MaxPO
  /\ purchase_orders' = save_procurement_plan(purchase_orders, plan)
  /\ result' = [NoResult EXCEPT !.status = "SUCCESS", !.message = "Purchase orders created",
                                !.purchase_order_ids = [i \in 1..Len(plan) |-> Len(purchase_orders) + i]]
  /\ UNCHANGED <<production_orders, wip_tracking, fg_inventory, inventory, qc_log, orchestration_log, consumptions, threads, call>>

NextPO ==
  \/ \E plan \in Plans : SaveProcurementPlan(plan)
  \/ \E po_id \in PoIds : ApprovePo(po_id)
  \/ \E po_id \in PoIds : RejectPo(po_id)
  \/ \E po_id \in PoIds, received_quantity \in 1..MaxRecv : ReceivePo(po_id, received_quantity)

SpecPO == Init /\ [][NextPO]_vars

\* ------------------------------------------------------ creation requests
\* createProduction alone, for ids of both kinds; MaxRows caps the rows an id
\* can gather in the order table.
CreateIds == Productions \cup DigitIds

InitCreate ==
  /\ production_orders = [p \in CreateIds |-> <<>>]
  /\ wip_tracking = [p \in CreateIds |-> <<>>]
  /\ fg_inventory = [f \in {} |-> 0]
  /\ inventory = FullLedger
  /\ qc_log = <<>>
  /\ orchestration_log = 0
  /\ purchase_orders = <<>>
  /\ result = NoResult
  /\ consumptions = [p \in Productions |-> 0]
  /\ threads = [t \in Threads |-> IdleThread]
  /\ call = NoCall

NextCreate ==
  \/ \E production_id \in CreateIds, product_id \in FinishedProducts, target_quantity \in TargetQuantities :
        /\ Len(production_orders[production_id]) < MaxRows
        /\ CreateProduction(production_id, product_id, target_quantity)

SpecCreate == InitCreate /\ [][NextCreate]_vars

\* ------------------------------------------------------ bulk production
\* One production of W, whose material M is planned with a reorder point of
\* 15 and an economic order quantity of 50, at the quantities of a real
\* batch.
BulkDemandConfig == [m \in {"M"} |-> [average_daily_demand |-> 1, lead_time_days |-> 5, safety_stock |-> 10]]

BulkPolicyConfig == [m \in {"M"} |-> [policy_type |-> "EOQ", economic_order_quantity |-> 50]]

BulkEnv == [demand_config |-> BulkDemandConfig, policy_config |-> BulkPolicyConfig, supplier |-> "OK", orchestrator |-> "PLAN", advisory |-> "NOT_CONFIGURED"]

BulkCascadeEnvs ==
  { [BulkEnv EXCEPT !.orchestrator = o] : o \in OrchestratorOutcomes } \cup { [BulkEnv EXCEPT !.supplier = "ERROR"] }

BulkEnvs(db, data) ==
  IF db.production_orders[data.production_id] = <<>>
     \/ db.production_orders[data.production_id][1].current_stage # data.completed_stage
  THEN {BulkEnv}
  ELSE IF data.completed_stage = "MATERIAL_ISSUED"
  THEN BulkCascadeEnvs
  ELSE IF data.completed_stage = "QUALITY_CHECK" /\ ~data.qc_passed
  THEN { [BulkEnv EXCEPT !.advisory = a] : a \in AdvisoryOutcomes }
  ELSE {BulkEnv}

InitBulk ==
  /\ production_orders = [p \in Productions |-> <<>>]
  /\ wip_tracking = [p \in Productions |-> <<>>]
  /\ fg_inventory = [f \in {} |-> 0]
  /\ \E stock \in 0..MaxBulkStock :
        inventory = [m \in {"M"} |-> [current_stock |-> stock, reserved_stock |-> 0]]
  /\ qc_log = <<>>
  /\ orchestration_log = 0
  /\ purchase_orders = <<>>
  /\ result = NoResult
  /\ consumptions = [p \in Productions |-> 0]
  /\ threads = [t \in Threads |-> IdleThread]
  /\ call = NoCall

NextBulk ==
  \/ CreateProduction("P1", "W", MaxBulkQty)
  \/ \E completed_stage \in StageInputs, quantity_completed \in {1, MaxBulkQty} :
        \E qc_passed \in QcInputs(completed_stage) :
          \E env \in BulkEnvs(Db, StageUpdate("P1", completed_stage, quantity_completed, qc_passed)) :
            AdvanceStage(StageUpdate("P1", completed_stage, quantity_completed, qc_passed), env)

SpecBulk == InitBulk /\ [][NextBulk]_vars

\* ------------------------------------------------------ concurrent calls
\* app.run serves each request on a thread of its own and _update_stage
\* takes no lock: a call is a sequence of file reads and writes, each frame a
\* local of its thread.  The steps below are the reads and writes of the
\* MATERIAL_ISSUED branch and of the normal flow.
ConcStages == {"MATERIAL_ISSUED", "FABRICATION"}

ConcEnvs == {DefaultEnv, [DefaultEnv EXCEPT !.orchestrator = "UNAVAILABLE"]}

InCall(th) == th.pc \in {"issue", "reduced", "flow"}

\* return of the call: the frames go away, the response stays
Returned(th, response) ==
  [th EXCEPT !.pc = "done", !.result = response, !.env = DefaultEnv,
             !.prod_df = [p \in Productions |-> <<>>], !.wip_df = [p \in Productions |-> <<>>],
             !.inventory_df = [m \in {} |-> 0], !.orchestration_result = NoOrchestration]

\* prod_df, wip_df = pd.read_csv(...), then the two checks on the order
Entered(th, data, env, overlapped) ==
  IF production_orders[data.production_id] = <<>>
  THEN Returned([th EXCEPT !.calls = @ + 1, !.data = data, !.overlapped = overlapped],
                ErrorResult("Production not found"))
  ELSE IF ~StageMatches(data.completed_stage, production_orders[data.production_id][1].current_stage)
  THEN Returned([th EXCEPT !.calls = @ + 1, !.data = data, !.overlapped = overlapped],
                ErrorResult("Invalid stage transition"))
  ELSE [th EXCEPT !.pc = IF data.completed_stage = "MATERIAL_ISSUED" THEN "issue" ELSE "flow",
                  !.calls = @ + 1, !.data = data, !.env = env, !.overlapped = overlapped,
                  !.result = NoResult, !.prod_df = production_orders, !.wip_df = wip_tracking]

ReadTables(t, data, env) ==
  /\ ~InCall(threads[t])
  /\ threads[t].calls < MaxCalls
  /\ threads' = [u \in Threads |->
                   IF u = t THEN Entered(threads[t], data, env, \E v \in Threads : InCall(threads[v]))
                   ELSE IF InCall(threads[u]) THEN [threads[u] EXCEPT !.overlapped = TRUE]
                   ELSE threads[u]]
  /\ UNCHANGED <<production_orders, wip_tracking, fg_inventory, inventory, qc_log, orchestration_log, purchase_orders, result, consumptions, call>>

\* inventory_df = pd.read_csv(...), VALIDATION FIRST, REDUCTION on the frame
Validated(th, rows) ==
  IF rows = <<>>
  THEN Returned(th, ErrorResult("No BOM defined for this product"))
  ELSE IF FirstShort(inventory, rows, th.data.quantity_completed, 1) # 0
  THEN Returned(th, [ErrorResult("Insufficient raw material") EXCEPT !.product_id =
                       rows[FirstShort(inventory, rows, th.data.quantity_completed, 1)].component_product_id])
  ELSE [th EXCEPT !.pc = "reduced",
                  !.inventory_df = Reduce(inventory, rows, th.data.quantity_completed, 1),
                  !.issued = [m \in Materials |->
                                IF m \in DOMAIN inventory
                                THEN @[m] + inventory[m].current_stock
                                      - Reduce(inventory, rows, th.data.quantity_completed, 1)[m].current_stock
                                ELSE @[m]]]

ReadInventory(t) ==
  /\ threads[t].pc = "issue"
  /\ threads' = [threads EXCEPT ![t] =
                   Validated(@, product_bom(@.prod_df[@.data.production_id][1].product_id))]
  /\ UNCHANGED <<production_orders, wip_tracking, fg_inventory, inventory, qc_log, orchestration_log, purchase_orders, result, consumptions, call>>

\* inventory_df.to_csv(...), then the event handed to the router
WriteInventory(t) ==
  /\ threads[t].pc = "reduced"
  /\ inventory' = threads[t].inventory_df
  /\ consumptions' = [consumptions EXCEPT ![threads[t].data.production_id] = @ + 1]
  /\ \E erp_response \in
        {handle_inventory_event(threads[t].inventory_df,
                                InventoryEvent(threads[t].data,
                                               threads[t].prod_df[threads[t].data.production_id][1].product_id,
                                               product_bom(threads[t].prod_df[threads[t].data.production_id][1].product_id)),
                                threads[t].env, orchestration_log)} :
        IF erp_response.raised
        THEN /\ threads' = [threads EXCEPT ![t] = Returned(@, Raised(erp_response.message))]
             /\ UNCHANGED orchestration_log
        ELSE /\ threads' = [threads EXCEPT ![t].pc = "flow",
                                           ![t].orchestration_result = erp_response.orchestration_result]
             /\ orchestration_log' = erp_response.orchestration_log
  /\ UNCHANGED <<production_orders, wip_tracking, fg_inventory, qc_log, purchase_orders, result, call>>

\* The frames of the thread in place of the files they were read from.
LocalDb(th) == [Db EXCEPT !.production_orders = th.prod_df, !.wip_tracking = th.wip_df]

\* NORMAL FLOW on the frames, prod_df.to_csv, wip_df.to_csv, and the
\* purchase orders that ProductionService.update_stage saves
WriteTables(t) ==
  /\ threads[t].pc = "flow"
  /\ \E o \in {SavePlan(NormalFlow(LocalDb(threads[t]), threads[t].data,
                                   threads[t].prod_df[threads[t].data.production_id][1].current_stage,
                                   threads[t].orchestration_result))} :
        /\ Len(o.purchase_orders) <= MaxPO
        /\ production_orders' = o.production_orders
        /\ wip_tracking' = o.wip_tracking
        /\ purchase_orders' = o.purchase_orders
        /\ threads' = [threads EXCEPT ![t] = Returned(@, o.result)]
  /\ UNCHANGED <<fg_inventory, inventory, qc_log, orchestration_log, result, consumptions, call>>

\* The ledger is fully stocked and no request has come in.
InitConc ==
  /\ production_orders = [p \in Productions |-> <<>>]
  /\ wip_tracking = [p \in Productions |-> <<>>]
  /\ fg_inventory = [f \in {} |-> 0]
  /\ inventory = FullLedger
  /\ qc_log = <<>>
  /\ orchestration_log = 0
  /\ purchase_orders = <<>>
  /\ result = NoResult
  /\ consumptions = [p \in Productions |-> 0]
  /\ threads = [t \in Threads |-> IdleThread]
  /\ call = NoCall

\* The productions are created first; then the threads take their calls.
NextConc ==
  \/ \E production_id \in Productions, product_id \in FinishedProducts, target_quantity \in TargetQuantities :
        /\ \A t \in Threads : threads[t].pc = "idle"
        /\ CreateProduction(production_id, product_id, target_quantity)
  \/ \E t \in Threads, production_id \in Productions, completed_stage \in ConcStages, quantity_completed \in Quantities :
        \E env \in IF completed_stage = "MATERIAL_ISSUED" THEN ConcEnvs ELSE {DefaultEnv} :
           ReadTables(t, StageUpdate(production_id, completed_stage, quantity_completed, TRUE), env)
  \/ \E t \in Threads : ReadInventory(t)
  \/ \E t \in Threads : WriteInventory(t)
  \/ \E t \in Threads : WriteTables(t)

SpecConc == InitConc /\ [][NextConc]_vars

\* ------------------------------------------- concurrent calls, two orders
\* The same threads and steps, with a reasoning service that proposes no
\* purchase: the advances of two productions all run to their end.
NoPlanEnv == [DefaultEnv EXCEPT !.orchestrator = "NO_PLAN"]

NextPair ==
  \/ \E production_id \in Productions, product_id \in {"X"}, target_quantity \in TargetQuantities :
        /\ \A t \in Threads : threads[t].pc = "idle"
        /\ CreateProduction(production_id, product_id, target_quantity)
  \/ \E t \in Threads, production_id \in Productions, completed_stage \in ConcStages :
        ReadTables(t, StageUpdate(production_id, completed_stage, 1, TRUE), NoPlanEnv)
  \/ \E t \in Threads : ReadInventory(t)
  \/ \E t \in Threads : WriteInventory(t)
  \/ \E t \in Threads : WriteTables(t)

SpecPair == InitConc /\ [][NextPair]_vars

\* ------------------------------------------------------ progress of orders
\* Clients that keep calling advanceStage with the stage the order is in, a
\* ledger that is restocked by receipts, and a reasoning service that
\* answers with no purchase or is unavailable.  A material issue is
\* requested only when the ledger covers it.
LiveEnvs(data) ==
  IF data.completed_stage = "MATERIAL_ISSUED"
  THEN {NoPlanEnv, [DefaultEnv EXCEPT !.orchestrator = "UNAVAILABLE"]}
  ELSE {DefaultEnv}

\* advanceStage(p, current_stage of p, 1, qc_passed)
Matching(p, qc_passed) ==
  /\ production_orders[p] # <<>>
  /\ production_orders[p][1].current_stage # "COMPLETED"
  /\ production_orders[p][1].current_stage = "MATERIAL_ISSUED" =>
        FirstShort(inventory, product_bom(production_orders[p][1].product_id), 1, 1) = 0
  /\ \E env \in LiveEnvs(StageUpdate(p, production_orders[p][1].current_stage, 1, qc_passed)) :
        \E o \in {update_stage(Db, StageUpdate(p, production_orders[p][1].current_stage, 1, qc_passed), env)} :
           /\ Len(o.qc_log) <= MaxRework
           /\ Commit(o)
           /\ UNCHANGED <<consumptions, threads, call>>

\* Receipts bring every material back to its full stock.
Restock ==
  /\ inventory # FullLedger
  /\ inventory' = FullLedger
  /\ UNCHANGED <<production_orders, wip_tracking, fg_inventory, qc_log, orchestration_log, purchase_orders, result, consumptions, threads, call>>

NextLive ==
  \/ \E production_id \in Productions : CreateProduction(production_id, "X", MaxQty)
  \/ \E p \in Productions, qc_passed \in BOOLEAN : Matching(p, qc_passed)
  \/ Restock

\* The matching calls keep coming for every order, at the quality check
\* with qc_passed true (before it qc_passed is not read), and the ledger is
\* restocked.
SpecLive ==
  /\ InitConc /\ [][NextLive]_vars
  /\ WF_vars(Restock)
  /\ \A p \in Productions : SF_vars(Matching(p, TRUE))

\* ---------------------------------------------------------- direct calls
\* The reorder engine, the supplier ranking and the router are plain
\* objects: each can be called on its own with any arguments.  A call is
\* drawn with its arguments, then made.
LedgerRows == [current_stock : 0..MaxStock, reserved_stock : 0..MaxReserved]

DemandParams ==
  [average_daily_demand : 0..MaxDemand, lead_time_days : 0..MaxDemand, safety_stock : 0..MaxDemand]

\* The three policies with their parameter, a TARGET_LEVEL row as
\* ProductionService builds it (policy_type and economic_order_quantity
\* only), and a policy type the engine does not know.
Policies ==
  { [policy_type |-> "EOQ", economic_order_quantity |-> q] : q \in 1..MaxLot }
  \cup { [policy_type |-> "TARGET_LEVEL", target_level |-> t] : t \in 0..MaxLot }
  \cup { [policy_type |-> "FIXED_LOT", fixed_lot_size |-> q] : q \in 1..MaxLot }
  \cup { [policy_type |-> "TARGET_LEVEL", economic_order_quantity |-> 1],
         [policy_type |-> "JIT", economic_order_quantity |-> 1] }

ReorderCalls ==
  { [op |-> "reorder", done |-> FALSE,
     args |-> [inventory_df |-> [m \in {"A"} |-> row], product_id |-> product_id,
               demand_params |-> d, policy_config |-> pc]] :
       row \in LedgerRows, product_id \in Materials, d \in DemandParams, pc \in Policies }

\* The supplier data: one row per supplier and product, with the confidence
\* score the pipeline computes for it.
SupplierRows == [product_id : Materials, confidence_score : (confidence_threshold - 1)..MaxScore]

RECURSIVE SupplierData(_)
SupplierData(n) ==
  IF n = 0 THEN {<<>>}
  ELSE SupplierData(n - 1) \cup
       { Append(data, [supplier_id |-> Len(data) + 1, product_id |-> row.product_id,
                       confidence_score |-> row.confidence_score]) :
           data \in {d \in SupplierData(n - 1) : Len(d) = n - 1}, row \in SupplierRows }

RankCalls ==
  { [op |-> "rank", done |-> FALSE, args |-> [data |-> data, product_id |-> product_id]] :
       data \in SupplierData(MaxCandidates), product_id \in Materials }

\* supplier_agent.preprocess_data(product_id), ..., rank_suppliers(df)
RankSuppliers ==
  /\ call.op = "rank" /\ ~call.done
  /\ call' = [op |-> "rank", done |-> TRUE, args |-> call.args,
              df |-> preprocess_data(call.args.data, call.args.product_id),
              out |-> rank_suppliers(preprocess_data(call.args.data, call.args.product_id)),
              supplier_output |->
                 generate_output(rank_suppliers(preprocess_data(call.args.data, call.args.product_id)).ranked_df,
                                 ranked_index(preprocess_data(call.args.data, call.args.product_id)),
                                 rank_suppliers(preprocess_data(call.args.data, call.args.product_id)).warning)]
  /\ UNCHANGED <<production_orders, wip_tracking, fg_inventory, inventory, qc_log, orchestration_log, purchase_orders, result, consumptions, threads>>

\* reorder_service.handle_inventory_update(...)
EvaluateReorder ==
  /\ call.op = "reorder" /\ ~call.done
  /\ call' = [op |-> "reorder", done |-> TRUE, args |-> call.args,
              out |-> handle_inventory_update(call.args.inventory_df, call.args.product_id,
                                              call.args.demand_params, call.args.policy_config)]
  /\ UNCHANGED <<production_orders, wip_tracking, fg_inventory, inventory, qc_log, orchestration_log, purchase_orders, result, consumptions, threads>>

\* The ledgers a call can meet: A alone or A and B, at every stock level.
Ledgers ==
  UNION { { [m \in present |-> [current_stock |-> stock[m], reserved_stock |-> 0]] :
              stock \in [present -> 0..MaxStock] } : present \in {{"A"}, {"A", "B"}} }

\* The entries of affected_materials: one per material, and one without its
\* material_id.
MaterialEntries ==
  { [material_id |-> m, quantity_consumed |-> 1] : m \in Materials } \cup { [quantity_consumed |-> 1] }

RECURSIVE EntryLists(_)
EntryLists(n) ==
  IF n = 0 THEN {<<>>}
  ELSE EntryLists(n - 1) \cup
       { Append(l, e) : l \in {k \in EntryLists(n - 1) : Len(k) = n - 1}, e \in MaterialEntries }

RoutedEvent(affected_materials) ==
  [InventoryEvent(StageUpdate("P1", "MATERIAL_ISSUED", 1, TRUE), "X", <<>>)
     EXCEPT !.affected_materials = affected_materials]

\* The events handed to the router: the contract's, and those that break one
\* of its rules (a key left out, another event_type, affected_materials that
\* is a dict).
RoutedEvents ==
  UNION { { RoutedEvent(l), [RoutedEvent(l) EXCEPT !.event_type = "STAGE_UPDATED"],
            [RoutedEvent(l) EXCEPT !.affected_materials_type = "dict"] }
          \cup { Restrict(RoutedEvent(l), DOMAIN RoutedEvent(l) \ {k}) : k \in RequiredKeys } :
          l \in EntryLists(MaxBatch) }

RouteCalls ==
  { [op |-> "route", done |-> FALSE,
     args |-> [inventory_df |-> inventory_df, inventory_event |-> inventory_event, env |-> env]] :
       inventory_df \in Ledgers, inventory_event \in RoutedEvents, env \in CascadeEnvs }

\* event_router.handle_inventory_event(inventory_df, inventory_event, demand_config, policy_config)
Route ==
  /\ call.op = "route" /\ ~call.done
  /\ call' = [op |-> "route", done |-> TRUE, args |-> call.args,
              out |-> handle_inventory_event(call.args.inventory_df, call.args.inventory_event,
                                             call.args.env, orchestration_log)]
  /\ UNCHANGED <<production_orders, wip_tracking, fg_inventory, inventory, qc_log, orchestration_log, purchase_orders, result, consumptions, threads>>

InitEngine ==
  /\ production_orders = [p \in Productions |-> <<>>]
  /\ wip_tracking = [p \in Productions |-> <<>>]
  /\ fg_inventory = [f \in {} |-> 0]
  /\ inventory = FullLedger
  /\ qc_log = <<>>
  /\ orchestration_log = 0
  /\ purchase_orders = <<>>
  /\ result = NoResult
  /\ consumptions = [p \in Productions |-> 0]
  /\ threads = [t \in Threads |-> IdleThread]
  /\ call \in ReorderCalls \cup RankCalls \cup RouteCalls

NextEngine ==
  \/ EvaluateReorder
  \/ RankSuppliers
  \/ Route

SpecEngine == InitEngine /\ [][NextEngine]_vars

\* ------------------------------------------------------------------ claims
Exists(p) == production_orders[p] # <<>>

StageOf(p) == production_orders[p][1].current_stage

StatusOf(p) == production_orders[p][1].status

ProductOf(p) == production_orders[p][1].product_id

\* Some BOM row of the product asks for more than the ledger holds of its
\* component, or for a component without a ledger record.
Short(product_id, q) ==
  \E i \in 1..Len(bom_df) :
     /\ bom_df[i].finished_product_id = product_id
     /\ \/ bom_df[i].component_product_id \notin DOMAIN inventory
        \/ inventory[bom_df[i].component_product_id].current_stock < bom_df[i].quantity_required * q

\* The step is the call advanceStage(p, completed_stage, q, qc_passed).
Advances(p, completed_stage, q, qc_passed) ==
  \E env \in Envs(Db, StageUpdate(p, completed_stage, q, qc_passed)) :
     AdvanceStage(StageUpdate(p, completed_stage, q, qc_passed), env)

\* C1: a MATERIAL_ISSUED advance of a production whose product has a short
\* BOM component (or one without a ledger record) fails and leaves every
\* ledger record as it was, the components before the short one included.
C1_AllOrNothing ==
  [][\/ (result'.status = "ERROR" /\ inventory' = inventory)
     \/ \A p \in Productions, q \in Quantities :
           ~(Exists(p) /\ Short(ProductOf(p), q) /\ Advances(p, "MATERIAL_ISSUED", q, TRUE))]_vars

\* A rejected consumption whose short component is the second BOM row: the
\* first row's component had enough stock and still has it.
C1_Witness ==
  /\ result.status = "ERROR"
  /\ result.message = "Insufficient raw material"
  /\ result.product_id = "B"
  /\ inventory["A"].current_stock >= 1

\* C2: inventory is never consumed twice for one production.
C2_ConsumedAtMostOnce ==
  \A p \in Productions : consumptions[p] <= 1

\* The cascade of the step's MATERIAL_ISSUED advance failed.
CascadeFailed(p, q, env) ==
  handle_inventory_event(inventory',
                         InventoryEvent(StageUpdate(p, "MATERIAL_ISSUED", q, TRUE), ProductOf(p),
                                        product_bom(ProductOf(p))),
                         env, orchestration_log).raised

\* C3: when a MATERIAL_ISSUED advance has applied the BOM consumption and the
\* cascade then fails, the decrement stays, the order moves on to FABRICATION
\* and the caller gets a result, one that carries no procurement plan.
C3_CascadeFailureKeepsTransition ==
  [][\A p \in Productions, q \in Quantities : \A env \in CascadeEnvs :
       (/\ Exists(p)
        /\ AdvanceStage(StageUpdate(p, "MATERIAL_ISSUED", q, TRUE), env)
        /\ inventory' # inventory
        /\ CascadeFailed(p, q, env))
          => (/\ StageOf(p)' = "FABRICATION"
              /\ result'.status = "SUCCESS"
              /\ ~result'.orchestration_result.present)]_vars

\* C4: when two concurrent MATERIAL_ISSUED advances of different productions
\* have returned, every material's current_stock is the initial stock minus
\* the requirements of the calls that passed validation and wrote the ledger.
C4_NoCheckThenActRace ==
  \A t, u \in Threads :
     (/\ threads[t].pc = "done" /\ threads[u].pc = "done"
      /\ threads[t].calls = 1 /\ threads[u].calls = 1
      /\ threads[t].overlapped /\ threads[u].overlapped
      /\ threads[t].data.completed_stage = "MATERIAL_ISSUED"
      /\ threads[u].data.completed_stage = "MATERIAL_ISSUED"
      /\ threads[t].data.production_id # threads[u].data.production_id)
        => \A m \in DOMAIN inventory :
              inventory[m].current_stock = MaxStock - (threads[t].issued[m] + threads[u].issued[m])

\* C5: of two concurrent advanceStage calls with the same production_id and
\* the same completed_stage, at most one succeeds.
C5_TransitionsSerialized ==
  \A t, u \in Threads :
     (/\ t # u
      /\ threads[t].pc = "done" /\ threads[u].pc = "done"
      /\ threads[t].overlapped /\ threads[u].overlapped
      /\ threads[t].data.production_id = threads[u].data.production_id
      /\ threads[t].data.completed_stage = threads[u].data.completed_stage)
        => ~(threads[t].result.status = "SUCCESS" /\ threads[u].result.status = "SUCCESS")

\* C6: advanceStage with a completed_stage other than the order's
\* current_stage fails and leaves the orders, the WIP history, the ledger and
\* the finished goods as they were.
C6_MismatchChangesNothing ==
  [][\/ /\ result'.status = "ERROR"
        /\ UNCHANGED <<production_orders, wip_tracking, inventory, fg_inventory>>
     \/ \A p \in Productions, cs \in StageInputs, q \in Quantities, qc \in BOOLEAN :
           ~(Exists(p) /\ cs # StageOf(p) /\ Advances(p, cs, q, qc))]_vars

\* A mismatch reported while some production is past its first stage.
C6_Witness ==
  /\ result.message = "Invalid stage transition"
  /\ \E p \in Productions : Exists(p) /\ StageOf(p) = "PAINTING"

AllowedSteps ==
  { <<"MATERIAL_ISSUED", "FABRICATION">>, <<"FABRICATION", "ASSEMBLY">>, <<"ASSEMBLY", "PAINTING">>,
    <<"PAINTING", "QUALITY_CHECK">>, <<"QUALITY_CHECK", "COMPLETED">>, <<"QUALITY_CHECK", "ASSEMBLY">> }

\* C7: current_stage changes only along the steps of the sequence, from
\* QUALITY_CHECK to COMPLETED only with qc_passed true and from
\* QUALITY_CHECK to ASSEMBLY only with qc_passed false.
C7_OnlySequenceSteps ==
  [][\A p \in Productions :
       Exists(p) =>
         /\ Exists(p)'
         /\ StageOf(p)' # StageOf(p) =>
              /\ <<StageOf(p), StageOf(p)'>> \in AllowedSteps
              /\ StageOf(p) = "QUALITY_CHECK" =>
                   \A q \in Quantities, qc \in BOOLEAN :
                      Advances(p, "QUALITY_CHECK", q, qc) => (qc <=> StageOf(p)' = "COMPLETED")]_vars

\* A production that went back to ASSEMBLY once and was completed after it.
C7_Witness ==
  \E p \in Productions :
     /\ Exists(p) /\ StageOf(p) = "COMPLETED"
     /\ \E i \in 1..Len(qc_log) : qc_log[i].production_id = p

\* C8: a failed quality check ends at ASSEMBLY / REWORK with exactly one WIP
\* entry (ASSEMBLY, REWORK) appended, whatever the advisory capability does.
C8_FailedQcCommitsRework ==
  [][\A p \in Productions, q \in Quantities :
       (Exists(p) /\ StageOf(p) = "QUALITY_CHECK" /\ Advances(p, "QUALITY_CHECK", q, FALSE))
          => (/\ StageOf(p)' = "ASSEMBLY"
              /\ StatusOf(p)' = "REWORK"
              /\ wip_tracking'[p] = Append(wip_tracking[p], [stage_name |-> "ASSEMBLY", status |-> "REWORK"])
              /\ result'.status = "SUCCESS")]_vars

\* The rework was committed although the advisory capability raised.
C8_Witness ==
  \E p \in Productions :
     /\ Exists(p) /\ StageOf(p) = "ASSEMBLY" /\ StatusOf(p) = "REWORK"
     /\ wip_tracking[p][Len(wip_tracking[p])] = [stage_name |-> "ASSEMBLY", status |-> "REWORK"]
     /\ qc_log # <<>> /\ qc_log[Len(qc_log)] = [production_id |-> p, llm_suggestions |-> "error"]

\* C9: every order's current_stage is a stage of the sequence, REWORK
\* implies ASSEMBLY, and status COMPLETED goes with stage COMPLETED.
C9_StageStatusInvariant ==
  \A p \in Productions : \A i \in 1..Len(production_orders[p]) :
     /\ production_orders[p][i].current_stage \in Stages
     /\ production_orders[p][i].status = "REWORK" => production_orders[p][i].current_stage = "ASSEMBLY"
     /\ production_orders[p][i].status = "COMPLETED" <=> production_orders[p][i].current_stage = "COMPLETED"

\* An order in rework next to an order that is completed.
C9_Witness ==
  \E p, r \in Productions :
     /\ Exists(p) /\ StatusOf(p) = "REWORK"
     /\ Exists(r) /\ StatusOf(r) = "COMPLETED"

\* C10: every material's current_stock stays >= 0.
C10_StockNeverNegative ==
  \A m \in DOMAIN inventory : inventory[m].current_stock >= 0

\* The arguments of a finished reorder evaluation.
Evaluation == call.op = "reorder" /\ call.done /\ ~call.out.raised

Available == call.args.inventory_df[call.args.product_id].current_stock - call.args.inventory_df[call.args.product_id].reserved_stock

ReorderPoint == call.args.demand_params.average_daily_demand * call.args.demand_params.lead_time_days + call.args.demand_params.safety_stock

\* C11: a reorder evaluation reports current_stock - reserved_stock as
\* available_stock, average_daily_demand x lead_time_days + safety_stock as
\* reorder_point, and triggers exactly when the first is <= the second.
C11_TriggerAtOrBelowReorderPoint ==
  Evaluation =>
     /\ call.out.decision.available_stock = Available
     /\ call.out.decision.reorder_point = ReorderPoint
     /\ call.out.decision.reorder_trigger <=> (Available <= ReorderPoint)

\* An evaluation at the boundary: available stock equals the reorder point.
C11_Witness ==
  Evaluation /\ Available = ReorderPoint /\ Available > 0 /\ call.out.decision.reorder_trigger

\* C12: a triggered decision recommends the EOQ constant under EOQ, the lot
\* size under FIXED_LOT and max(0, target_level - available_stock) under
\* TARGET_LEVEL, never a negative quantity.
C12_QuantityFollowsPolicy ==
  (Evaluation /\ call.out.decision.reorder_trigger) =>
     /\ call.out.decision.policy_used = call.args.policy_config.policy_type
     /\ call.out.decision.recommended_order_quantity >= 0
     /\ call.args.policy_config.policy_type = "EOQ" =>
          call.out.decision.recommended_order_quantity = call.args.policy_config.economic_order_quantity
     /\ call.args.policy_config.policy_type = "FIXED_LOT" =>
          call.out.decision.recommended_order_quantity = call.args.policy_config.fixed_lot_size
     /\ call.args.policy_config.policy_type = "TARGET_LEVEL" =>
          call.out.decision.recommended_order_quantity =
             IF call.args.policy_config.target_level > Available
             THEN call.args.policy_config.target_level - Available ELSE 0

\* A triggered TARGET_LEVEL decision with more stock than the target level.
C12_Witness ==
  /\ Evaluation /\ call.out.decision.reorder_trigger
  /\ call.args.policy_config.policy_type = "TARGET_LEVEL"
  /\ Available > call.args.policy_config.target_level
  /\ call.out.decision.recommended_order_quantity = 0

\* A finished ranking of a non-empty candidate set.
Ranking == call.op = "rank" /\ call.done /\ call.df # <<>>

HighConfidence == {i \in 1..Len(call.df) : call.df[i].confidence_score >= confidence_threshold}

\* C13: for a non-empty candidate set rank_suppliers returns one or two
\* suppliers; the warning is non-empty exactly when fewer than two
\* candidates reach the confidence threshold, and with an empty warning both
\* returned suppliers reach it.
C13_RankingAndWarning ==
  Ranking =>
     /\ Len(call.out.ranked_df) \in {1, 2}
     /\ \A i \in 1..Len(call.out.ranked_df) : \E j \in 1..Len(call.df) : call.df[j] = call.out.ranked_df[i]
     /\ call.out.warning # "" <=> Cardinality(HighConfidence) < 2
     /\ call.out.warning = "" =>
          /\ Len(call.out.ranked_df) = 2
          /\ \A i \in 1..2 : call.out.ranked_df[i].confidence_score >= confidence_threshold

\* Three candidates of which one reaches the threshold: two are returned,
\* with the warning.
C13_Witness ==
  /\ Ranking /\ Len(call.df) = 3 /\ Cardinality(HighConfidence) = 1
  /\ Len(call.out.ranked_df) = 2 /\ call.out.warning # ""

\* A finished call of the router, its event and what it was called with.
Routed == call.op = "route" /\ call.done

Event == call.args.inventory_event

Batch == call.args.inventory_event.affected_materials

Malformed ==
  \/ \E k \in {"event_type", "source", "timestamp", "production_id", "affected_materials"} : k \notin DOMAIN Event
  \/ Event.event_type # "INVENTORY_UPDATED"
  \/ Event.affected_materials_type # "list"
  \/ \E i \in 1..Len(Batch) : "material_id" \notin DOMAIN Batch[i]

\* Material i of the batch has no demand or no policy configuration.
Gap(i) ==
  \/ Batch[i].material_id \notin DOMAIN call.args.env.demand_config
  \/ Batch[i].material_id \notin DOMAIN call.args.env.policy_config

HasGap == ~Malformed /\ \E i \in 1..Len(Batch) : Gap(i)

FirstGap == CHOOSE i \in 1..Len(Batch) : Gap(i) /\ \A j \in 1..(i - 1) : ~Gap(j)

\* Material i of the batch is at or below its reorder point.
Triggers(i) ==
  /\ ~Gap(i)
  /\ Batch[i].material_id \in DOMAIN call.args.inventory_df
  /\ call.args.inventory_df[Batch[i].material_id].current_stock
       - call.args.inventory_df[Batch[i].material_id].reserved_stock
     <= call.args.env.demand_config[Batch[i].material_id].average_daily_demand
          * call.args.env.demand_config[Batch[i].material_id].lead_time_days
        + call.args.env.demand_config[Batch[i].material_id].safety_stock

\* A material before position i is not in the ledger, or its supplier
\* ranking fails.
FailsBefore(i) ==
  \E j \in 1..(i - 1) :
     \/ Batch[j].material_id \notin DOMAIN call.args.inventory_df
     \/ Triggers(j) /\ call.args.env.supplier = "ERROR"

ConfigErrors == {"Demand configuration missing for material", "Policy configuration missing for material"}

Completes == ~Malformed /\ (\A i \in 1..Len(Batch) : ~Gap(i)) /\ ~FailsBefore(Len(Batch) + 1)

InvalidEventErrors ==
  {"Missing required event key", "Invalid event_type. Expected INVENTORY_UPDATED.",
   "affected_materials must be a list.", "Each affected material must contain material_id."}

\* C19: an event that lacks a required key, has another event_type, whose
\* affected_materials is not a list or holds an entry without material_id is
\* rejected with the invalid-event error before any reorder evaluation,
\* supplier ranking or strategic-reasoning call.
C19_MalformedEventRejected ==
  (Routed /\ Malformed) =>
     /\ call.out.raised
     /\ call.out.message \in InvalidEventErrors
     /\ call.out.materials_evaluated = <<>>
     /\ call.out.evaluations = 0
     /\ call.out.rankings = 0
     /\ call.out.reasoning_calls = 0

\* The first entry names a material that is due for a reorder, the second has
\* no material_id: nothing is evaluated.
C19_Witness ==
  /\ Routed /\ call.out.raised
  /\ call.out.message = "Each affected material must contain material_id."
  /\ Len(Batch) = 2 /\ "material_id" \in DOMAIN Batch[1] /\ Triggers(1)
  /\ call.out.evaluations = 0

\* A request of createProduction for an id that the order table or the WIP
\* history already holds.
CreatesExisting ==
  \E production_id \in DOMAIN production_orders, product_id \in FinishedProducts,
     target_quantity \in TargetQuantities :
       /\ production_orders[production_id] # <<>> \/ wip_tracking[production_id] # <<>>
       /\ CreateProduction(production_id, product_id, target_quantity)

\* C18: createProduction with a production_id that the order table or the
\* WIP history already holds fails and leaves both tables as they were, so
\* every production_id has at most one order, and with it exactly one initial
\* MATERIAL_ISSUED entry in the WIP history.
C18_DuplicateCreateRejected ==
  [][/\ CreatesExisting => (result'.status = "ERROR" /\ UNCHANGED <<production_orders, wip_tracking>>)
     /\ \A p \in DOMAIN production_orders :
          /\ Len(production_orders'[p]) <= 1
          /\ production_orders'[p] # <<>> =>
               Cardinality({i \in 1..Len(wip_tracking'[p]) :
                              wip_tracking'[p][i].stage_name = "MATERIAL_ISSUED"}) = 1]_vars

\* The MATERIAL_ISSUED advance of p by q reaches the strategic-reasoning
\* service: the consumption is written and a consumed material is at or
\* below its reorder point.
ReasoningReached(p, q, env) ==
  /\ Exists(p) /\ StageOf(p) = "MATERIAL_ISSUED"
  /\ inventory' # inventory
  /\ \E m \in DOMAIN inventory :
        /\ inventory'[m] # inventory[m]
        /\ inventory'[m].current_stock - inventory'[m].reserved_stock
           <= env.demand_config[m].average_daily_demand * env.demand_config[m].lead_time_days
              + env.demand_config[m].safety_stock

\* C16: when the strategic-reasoning service answers text that is not JSON,
\* the call ends with an error: no plan reaches the caller, no row is added
\* to the orchestration log and no purchase order is created.
C16_MalformedAnswerLeavesNoPlan ==
  [][\/ /\ result'.status = "EXCEPTION"
        /\ result'.message = "Model did not return valid JSON."
        /\ ~result'.orchestration_result.present
        /\ result'.purchase_order_ids = <<>>
        /\ UNCHANGED <<orchestration_log, purchase_orders>>
     \/ \A p \in Productions, q \in Quantities :
           ~(/\ ReasoningReached(p, q, [DefaultEnv EXCEPT !.orchestrator = "MALFORMED"])
             /\ AdvanceStage(StageUpdate(p, "MATERIAL_ISSUED", q, TRUE),
                             [DefaultEnv EXCEPT !.orchestrator = "MALFORMED"]))]_vars

\* The answer that is not JSON arrives after an earlier cascade logged a
\* decision and created purchase orders; both are as that cascade left them.
C16_Witness ==
  /\ result.status = "EXCEPTION" /\ result.message = "Model did not return valid JSON."
  /\ orchestration_log = 1 /\ purchase_orders # <<>>

\* C17: advanceStage for an order at COMPLETED, with any completed_stage and
\* any qc_passed, fails and leaves the orders, the WIP history, the ledger
\* and the finished goods as they were.
C17_CompletedIsTerminal ==
  [][\/ /\ result'.status = "ERROR"
        /\ UNCHANGED <<production_orders, wip_tracking, inventory, fg_inventory>>
     \/ \A p \in Productions, cs \in StageInputs, q \in Quantities, qc \in BOOLEAN :
           ~(Exists(p) /\ StageOf(p) = "COMPLETED" /\ Advances(p, cs, q, qc))]_vars

\* A call with completed_stage = COMPLETED for a completed order.
C17_Witness ==
  /\ result.message = "Already at final stage"
  /\ \E p \in Productions : Exists(p) /\ StageOf(p) = "COMPLETED"

\* P1 is a production of W at its first stage and the ledger holds 25 M,
\* none reserved.
BulkReady ==
  /\ Exists("P1") /\ ProductOf("P1") = "W" /\ StageOf("P1") = "MATERIAL_ISSUED"
  /\ production_orders["P1"][1].target_quantity = 10
  /\ inventory["M"] = [current_stock |-> 25, reserved_stock |-> 0]

\* What the step leaves when it is the MATERIAL_ISSUED advance of 10 units:
\* M at 5, P1 at FABRICATION, the reorder decision for M and one supplier
\* ranking, with its list.
BulkOutcome(env) ==
  /\ inventory'["M"].current_stock = 5
  /\ production_orders'["P1"][1].current_stage = "FABRICATION"
  /\ handle_inventory_update(inventory', "M", env.demand_config["M"], env.policy_config["M"]).decision
       = [material_id |-> "M", available_stock |-> 5, reorder_point |-> 15, reorder_trigger |-> TRUE,
          policy_used |-> "EOQ", recommended_order_quantity |-> 50]
  /\ env.supplier = "OK"
  /\ RouteLoop(inventory', AffectedMaterials(product_bom("W"), 10), env, 1, EmptyLoop).supplier_ranking_results
       = <<[material_id |-> "M", suppliers |-> <<"S1", "S2">>]>>

\* C20: with W = 2 M per unit, 25 M in stock (none reserved), safety stock
\* 10, daily demand 1, lead time 5 and EOQ 50, advancing MATERIAL_ISSUED of
\* P1 (target 10) with quantity_completed = 10 leaves M at 5, moves P1 to
\* FABRICATION, yields the reorder decision for M (reorder point 15, trigger
\* true, quantity 50) and a non-empty ranked supplier list for M.
C20_BulkScenario ==
  [][BulkReady =>
       \A env \in BulkCascadeEnvs :
          BulkOutcome(env) \/ ~AdvanceStage(StageUpdate("P1", "MATERIAL_ISSUED", 10, TRUE), env)]_vars

\* What the BOM rows of product_id, from row i on, require of material m per
\* unit.
RECURSIVE BomTotal(_, _, _)
BomTotal(product_id, m, i) ==
  IF i > Len(bom_df) THEN 0
  ELSE (IF bom_df[i].finished_product_id = product_id /\ bom_df[i].component_product_id = m
        THEN bom_df[i].quantity_required ELSE 0) + BomTotal(product_id, m, i + 1)

\* The step is a MATERIAL_ISSUED advance that reported success.
IssuedOk == result'.status = "SUCCESS" /\ result'.previous_stage = "MATERIAL_ISSUED"

\* C21: a successful MATERIAL_ISSUED advance takes quantity_required x
\* quantity_completed off the current_stock of the component of every BOM row
\* of the product, leaves every other material as it was, and its
\* affected_materials list has one entry per BOM row, in BOM order, with that
\* row's component and decrement.
C21_IssueDecrementsBom ==
  [][IssuedOk =>
       /\ DOMAIN inventory' = DOMAIN inventory
       /\ \A m \in DOMAIN inventory :
            /\ inventory'[m].current_stock
                 = inventory[m].current_stock
                   - BomTotal(ProductOf(result'.production_id), m, 1) * result'.quantity_processed
            /\ inventory'[m].reserved_stock = inventory[m].reserved_stock
       /\ Len(AffectedMaterials(product_bom(ProductOf(result'.production_id)), result'.quantity_processed))
            = Len(product_bom(ProductOf(result'.production_id)))
       /\ \A i \in 1..Len(product_bom(ProductOf(result'.production_id))) :
            AffectedMaterials(product_bom(ProductOf(result'.production_id)), result'.quantity_processed)[i]
              = [material_id |-> product_bom(ProductOf(result'.production_id))[i].component_product_id,
                 quantity_consumed |-> product_bom(ProductOf(result'.production_id))[i].quantity_required
                                         * result'.quantity_processed]]_vars

\* Two units of X were issued from a ledger that held two A and two B.
C21_Witness ==
  /\ result.status = "SUCCESS" /\ result.previous_stage = "MATERIAL_ISSUED"
  /\ result.quantity_processed = 2 /\ ProductOf(result.production_id) = "X"
  /\ "B" \in DOMAIN inventory
  /\ inventory["A"].current_stock = 0 /\ inventory["B"].current_stock = 0

\* The step is a quality check that passed.
QcPassOk ==
  /\ result'.status = "SUCCESS"
  /\ result'.previous_stage = "QUALITY_CHECK" /\ result'.new_stage = "COMPLETED"

FgStock(fg, f) == IF f \in DOMAIN fg THEN fg[f] ELSE 0

\* C22: a quality check with qc_passed true on an order at QUALITY_CHECK
\* succeeds, sets stage and status to COMPLETED, adds quantity_completed to
\* the finished-goods stock of the order's product (creating the record when
\* absent), changes no other product's stock and appends no WIP entry; the
\* finished-goods stock changes in no other step and a completed order stays
\* completed, so a production adds to finished goods at most once.
C22_PassedQcAddsFinishedGoodsOnce ==
  [][/\ \/ result'.status = "SUCCESS"
        \/ \A p \in Productions, q \in Quantities :
              ~(Exists(p) /\ StageOf(p) = "QUALITY_CHECK" /\ Advances(p, "QUALITY_CHECK", q, TRUE))
     /\ QcPassOk =>
          /\ StageOf(result'.production_id) = "QUALITY_CHECK"
          /\ production_orders'[result'.production_id][1].current_stage = "COMPLETED"
          /\ production_orders'[result'.production_id][1].status = "COMPLETED"
          /\ DOMAIN fg_inventory' = DOMAIN fg_inventory \cup {ProductOf(result'.production_id)}
          /\ \A f \in DOMAIN fg_inventory' :
               fg_inventory'[f] = FgStock(fg_inventory, f)
                                  + (IF f = ProductOf(result'.production_id)
                                     THEN result'.quantity_processed ELSE 0)
          /\ Len(wip_tracking'[result'.production_id]) = Len(wip_tracking[result'.production_id])
     /\ fg_inventory' # fg_inventory => QcPassOk
     /\ \A p \in Productions :
          (Exists(p) /\ StageOf(p) = "COMPLETED") => StageOf(p)' = "COMPLETED"]_vars

\* Two productions of X passed their quality check with two units each.
C22_Witness ==
  /\ result.status = "SUCCESS" /\ result.new_stage = "COMPLETED"
  /\ "X" \in DOMAIN fg_inventory /\ fg_inventory["X"] = 4
  /\ \A p \in Productions : Exists(p) /\ StageOf(p) = "COMPLETED"

\* The step is a successful advance of a stage other than QUALITY_CHECK.
FlowOk == result'.status = "SUCCESS" /\ result'.message = "Stage updated"

Successor ==
  [s \in {"MATERIAL_ISSUED", "FABRICATION", "ASSEMBLY", "PAINTING"} |->
     IF s = "MATERIAL_ISSUED" THEN "FABRICATION"
     ELSE IF s = "FABRICATION" THEN "ASSEMBLY"
     ELSE IF s = "ASSEMBLY" THEN "PAINTING" ELSE "QUALITY_CHECK"]

\* C23: a successful advance of a stage other than QUALITY_CHECK appends one
\* WIP entry, for the next stage of the sequence with status IN_PROGRESS,
\* marks the entries of the stage just completed COMPLETED, leaves the other
\* entries as they were and sets the order to the next stage, IN_PROGRESS;
\* no step removes a WIP entry or changes its stage_name.
C23_AdvanceAppendsOneWipEntry ==
  [][/\ FlowOk =>
          /\ result'.previous_stage \in DOMAIN Successor
          /\ StageOf(result'.production_id) = result'.previous_stage
          /\ production_orders'[result'.production_id][1].current_stage = Successor[result'.previous_stage]
          /\ production_orders'[result'.production_id][1].status = "IN_PROGRESS"
          /\ Len(wip_tracking'[result'.production_id]) = Len(wip_tracking[result'.production_id]) + 1
          /\ wip_tracking'[result'.production_id][Len(wip_tracking'[result'.production_id])]
               = [stage_name |-> Successor[result'.previous_stage], status |-> "IN_PROGRESS"]
          /\ \A i \in 1..Len(wip_tracking[result'.production_id]) :
               wip_tracking'[result'.production_id][i].status
                 = IF wip_tracking[result'.production_id][i].stage_name = result'.previous_stage
                   THEN "COMPLETED" ELSE wip_tracking[result'.production_id][i].status
     /\ \A p \in Productions :
          /\ Len(wip_tracking'[p]) >= Len(wip_tracking[p])
          /\ \A i \in 1..Len(wip_tracking[p]) :
               wip_tracking'[p][i].stage_name = wip_tracking[p][i].stage_name]_vars

\* ASSEMBLY was advanced a second time, after a rework: both ASSEMBLY entries
\* are COMPLETED and the PAINTING entry is the last.
C23_Witness ==
  /\ result.status = "SUCCESS" /\ result.previous_stage = "ASSEMBLY"
  /\ Cardinality({i \in 1..Len(wip_tracking[result.production_id]) :
                    wip_tracking[result.production_id][i] = [stage_name |-> "ASSEMBLY", status |-> "COMPLETED"]}) = 2
  /\ wip_tracking[result.production_id][Len(wip_tracking[result.production_id])]
       = [stage_name |-> "PAINTING", status |-> "IN_PROGRESS"]

\* The WIP entries of p that are not COMPLETED.
OpenEntries(p) == {i \in 1..Len(wip_tracking[p]) : wip_tracking[p][i].status # "COMPLETED"}

\* C26: a production that is not COMPLETED has exactly one WIP entry that is
\* not COMPLETED, and it is the entry of its current_stage; a COMPLETED
\* production has none.
C26_OneOpenWipEntry ==
  \A p \in Productions :
     Exists(p) =>
        IF StageOf(p) = "COMPLETED"
        THEN OpenEntries(p) = {}
        ELSE /\ Cardinality(OpenEntries(p)) = 1
             /\ \A i \in OpenEntries(p) : wip_tracking[p][i].stage_name = StageOf(p)

\* The entries of the batch whose material is at or below its reorder
\* point, in the order of the batch.
Triggered == SelectSeq(Batch, LAMBDA e : \E i \in 1..Len(Batch) : Batch[i] = e /\ Triggers(i))

\* The decisions of the response that triggered a reorder, in their order.
TriggeredDecisions == SelectSeq(call.out.materials_evaluated, LAMBDA d : d.reorder_trigger)

\* C24: the router preserves order.  The i-th decision of the response is for
\* the i-th affected material, and what the reasoning service is handed
\* (inventory_analysis, supplier_ranking_results) has one entry per triggered
\* material, in the order of the batch, each ranked for the recommended order
\* quantity of that material's decision.
C24_RouterPreservesOrder ==
  Routed =>
     /\ ~call.out.raised =>
          /\ Len(call.out.materials_evaluated) = Len(Batch)
          /\ \A i \in 1..Len(Batch) : call.out.materials_evaluated[i].material_id = Batch[i].material_id
     /\ call.out.reasoning_calls = 1 =>
          /\ Len(call.out.structured_input.inventory_analysis) = Len(Triggered)
          /\ Len(call.out.structured_input.supplier_ranking_results) = Len(Triggered)
          /\ Len(call.out.ranked_for) = Len(Triggered)
          /\ \A j \in 1..Len(Triggered) :
                /\ call.out.structured_input.inventory_analysis[j].material_id = Triggered[j].material_id
                /\ call.out.structured_input.supplier_ranking_results[j].material_id = Triggered[j].material_id
                /\ call.out.ranked_for[j].product_id = Triggered[j].material_id
                /\ call.out.ranked_for[j].required_quantity
                     = call.out.structured_input.inventory_analysis[j].quantity_to_order
     /\ (call.out.reasoning_calls = 1 /\ ~call.out.raised) =>
          /\ Len(TriggeredDecisions) = Len(call.out.structured_input.inventory_analysis)
          /\ \A j \in 1..Len(TriggeredDecisions) :
                call.out.structured_input.inventory_analysis[j].quantity_to_order
                  = TriggeredDecisions[j].recommended_order_quantity

\* B then A, both due with different quantities: the service is handed B's
\* analysis before A's.
C24_Witness ==
  /\ Routed /\ ~call.out.raised /\ call.out.reasoning_calls = 1
  /\ Len(Batch) = 2 /\ Batch[1].material_id = "B" /\ Batch[2].material_id = "A"
  /\ call.out.structured_input.inventory_analysis
       = <<[material_id |-> "B", quantity_to_order |-> 3], [material_id |-> "A", quantity_to_order |-> 2]>>
  /\ call.out.ranked_for
       = <<[product_id |-> "B", required_quantity |-> 3], [product_id |-> "A", required_quantity |-> 2]>>

\* The suppliers of the output, as listed.
TopSuppliers == call.supplier_output.top_suppliers

\* C25: the suppliers of the output are listed in non-increasing
\* confidence_score, the i-th of them with ranking_position i, and no
\* candidate left out has a strictly higher score than a listed one.
C25_RankedBestFirst ==
  Ranking =>
     /\ Len(TopSuppliers) = Len(call.out.ranked_df)
     /\ \A i \in 1..Len(TopSuppliers) :
           /\ TopSuppliers[i].ranking_position = i
           /\ TopSuppliers[i].supplier_id = call.out.ranked_df[i].supplier_id
           /\ TopSuppliers[i].confidence_score = call.out.ranked_df[i].confidence_score
     /\ \A i, j \in 1..Len(TopSuppliers) :
           i < j => TopSuppliers[i].confidence_score >= TopSuppliers[j].confidence_score
     /\ \A k \in 1..Len(call.df) :
           (\A i \in 1..Len(TopSuppliers) : TopSuppliers[i].supplier_id # call.df[k].supplier_id) =>
              \A i \in 1..Len(TopSuppliers) : call.df[k].confidence_score <= TopSuppliers[i].confidence_score

\* Three candidates given worst first: the best two are listed, best first,
\* and the worst is left out.
C25_Witness ==
  /\ Ranking /\ Len(call.df) = 3
  /\ call.df[1].confidence_score < call.df[2].confidence_score
  /\ call.df[2].confidence_score < call.df[3].confidence_score
  /\ Len(TopSuppliers) = 2
  /\ TopSuppliers[1].supplier_id = call.df[3].supplier_id /\ TopSuppliers[1].ranking_position = 1
  /\ TopSuppliers[2].supplier_id = call.df[2].supplier_id /\ TopSuppliers[2].ranking_position = 2

\* Thread t has returned from its only call, an advance reported successful.
Reported(t) == threads[t].pc = "done" /\ threads[t].calls = 1 /\ threads[t].result.status = "SUCCESS"

\* C27: productions are independent, also under concurrency.  When one
\* advance of P and one advance of Q (P # Q) have both been reported
\* successful, the order table shows each production at the stage its call
\* reported and the WIP history holds the entry of that stage.
C27_ProductionsIndependent ==
  \A t, u \in Threads :
     (/\ Reported(t) /\ Reported(u)
      /\ threads[t].data.production_id # threads[u].data.production_id)
        => /\ StageOf(threads[t].data.production_id) = threads[t].result.new_stage
           /\ \E i \in 1..Len(wip_tracking[threads[t].data.production_id]) :
                 wip_tracking[threads[t].data.production_id][i].stage_name = threads[t].result.new_stage

\* The stock of material m in the ledger, 0 when it has no row.
StockOf(ledger, m) == IF m \in DOMAIN ledger THEN ledger[m].current_stock ELSE 0

\* Order i goes from APPROVED to COMPLETED and nothing else changes in the
\* order file.
Completing(i) ==
  /\ purchase_orders[i].status = "APPROVED"
  /\ purchase_orders' = [purchase_orders EXCEPT ![i].status = "COMPLETED"]

\* C28: a purchase order adds stock at most once.  The ledger changes only
\* in a step that moves one APPROVED order to COMPLETED, and then by the
\* received quantity of that order's material alone; a receipt for an order
\* that is PENDING, REJECTED, COMPLETED or not on file fails and changes
\* neither the ledger nor the orders.
C28_ReceiveAddsStockOnce ==
  [][/\ inventory' # inventory =>
          /\ result'.message = "Received"
          /\ \E i \in 1..Len(purchase_orders) :
                /\ Completing(i)
                /\ StockOf(inventory', purchase_orders[i].material_id)
                     > StockOf(inventory, purchase_orders[i].material_id)
                /\ \A m \in DOMAIN inventory' \ {purchase_orders[i].material_id} :
                      m \in DOMAIN inventory /\ inventory'[m] = inventory[m]
     /\ result'.message = "Received" => \E i \in 1..Len(purchase_orders) : Completing(i)
     /\ \A po_id \in PoIds, received_quantity \in 1..MaxRecv :
           (/\ po_id \notin 1..Len(purchase_orders) \/ purchase_orders[po_id].status # "APPROVED"
            /\ ReceivePo(po_id, received_quantity))
              => /\ result'.status = "ERROR"
                 /\ UNCHANGED <<inventory, purchase_orders>>
     /\ \A po_id \in 1..Len(purchase_orders), received_quantity \in 1..MaxRecv :
           (purchase_orders[po_id].status = "APPROVED" /\ ReceivePo(po_id, received_quantity))
              => /\ Completing(po_id)
                 /\ StockOf(inventory', purchase_orders[po_id].material_id)
                      = StockOf(inventory, purchase_orders[po_id].material_id) + received_quantity]_vars

\* An order has been received and a second receipt for it was refused: the
\* ledger holds the first receipt alone.
C28_Witness ==
  /\ Len(purchase_orders) = 1 /\ purchase_orders[1].status = "COMPLETED"
  /\ purchase_orders[1].material_id = "A"
  /\ result.message = "Cannot receive PO"
  /\ inventory["A"].current_stock = MaxRecv

PoSteps == { <<"PENDING", "APPROVED">>, <<"PENDING", "REJECTED">>, <<"APPROVED", "COMPLETED">> }

\* C29: the life of a purchase order.  An order enters the file PENDING; its
\* status changes only from PENDING to APPROVED or REJECTED and from
\* APPROVED to COMPLETED, so REJECTED and COMPLETED are final; no order
\* leaves the file or changes otherwise; approving or rejecting an order
\* that is not PENDING fails and leaves the file unchanged.
C29_PurchaseOrderLifecycle ==
  [][/\ Len(purchase_orders') >= Len(purchase_orders)
     /\ \A i \in 1..Len(purchase_orders) :
           /\ purchase_orders'[i] = [purchase_orders[i] EXCEPT !.status = purchase_orders'[i].status]
           /\ \/ purchase_orders'[i].status = purchase_orders[i].status
              \/ <<purchase_orders[i].status, purchase_orders'[i].status>> \in PoSteps
     /\ \A i \in (Len(purchase_orders) + 1)..Len(purchase_orders') : purchase_orders'[i].status = "PENDING"
     /\ \A po_id \in 1..Len(purchase_orders) :
           (purchase_orders[po_id].status # "PENDING" /\ (ApprovePo(po_id) \/ RejectPo(po_id)))
              => /\ result'.status = "ERROR"
                 /\ UNCHANGED <<purchase_orders, inventory>>
     /\ \A po_id \in 1..Len(purchase_orders) :
           (purchase_orders[po_id].status = "PENDING" /\ ApprovePo(po_id))
              => purchase_orders'[po_id].status = "APPROVED"
     /\ \A po_id \in 1..Len(purchase_orders) :
           (purchase_orders[po_id].status = "PENDING" /\ RejectPo(po_id))
              => purchase_orders'[po_id].status = "REJECTED"]_vars

\* One order rejected, one received, and an approval of a decided order
\* refused.
C29_Witness ==
  /\ Len(purchase_orders) = 2
  /\ purchase_orders[1].status = "REJECTED" /\ purchase_orders[2].status = "COMPLETED"
  /\ result.message = "PO is already decided"

\* C30: no production gets stuck.  With matching advanceStage calls that keep
\* coming, stock that covers the material issue and a quality check that
\* passes in the end, every created production reaches COMPLETED.
C30_EveryProductionCompletes ==
  \A p \in Productions : [](Exists(p) => <>(Exists(p) /\ StageOf(p) = "COMPLETED"))

Spec == Init /\ [][Next]_vars
====
